---- MODULE Spec2Model ----
(***************************************************************************)
(* State-machine model of the FM synthesizer core: FMSynthesizer (the      *)
(* voice coordinator), Operator, ADSREnvelope, LFO and ModulationMatrix.   *)
(*                                                                         *)
(* Encodings.  Gains, levels, velocities and ratios are in thousandths     *)
(* (1.0 is 1000); times are in milliseconds (0.001 s is 1); matrix depths  *)
(* and frequencies (Hz) are plain integers.  A JavaScript object is a      *)
(* record; a property whose value is `undefined` is a field that is absent *)
(* from the record (Has / Put / Drop below), so "x !== undefined" is       *)
(* Has(obj, "x").  An array is a function on 0 .. length-1.                *)
(***************************************************************************)
EXTENDS Integers, Sequences, FiniteSets, TLC

\* ------------------------------------------------------------ bounds
\* Operator.nextVoiceId never exceeds this: noteOn is disabled beyond it.
MaxVoiceId == 3

\* init() is called until this many audio contexts exist.
MaxInits == 4

\* The router wires no more than this many depth gains under one key.
MaxLinks == 3

\* The clock is followed for this many seconds after the page has loaded.
MaxSeconds == 3

\* requestAnimationFrame hands out no id beyond this one.
MaxFrames == 4

\* No more than this many records are saved.
MaxRecords == 2

\* No more than this many laps are recorded.
MaxLaps == 1

\* Date.now() when the page has loaded, ms
PageLoad == 1000

\* animationId: null
NoFrame == 0

\* saveRecord keeps the newest 100 records
RecordLimit == 100

\* MIDI notes played (A4 and A5).
Notes == {69, 81}

\* Velocities passed as the third argument of FMSynthesizer.noteOn
VelocityInputs == {1000}

\* Values passed as the second argument (noteName) of FMSynthesizer.noteOn
NoteNameInputs == {500}

\* Operators and envelopes passed to assignEnvelopeToOperator
AssignOpInputs == {0}

AssignEnvInputs == {0, 1}

\* Operators and handles of the direct Operator.noteOff calls
DirectOpInputs == {0}

HandleInputs == {0, 7}

\* Depths passed to the matrix operations.
DepthInputs == {-1, 0, 1, 50}

\* (source, target) pairs passed to the matrix operations: self-feedback, a
\* pair the presets use, a pair they leave alone, and indices out of range.
CellInputs == {<<0, 0>>, <<1, 0>>, <<2, 3>>, <<-1, 0>>, <<0, 4>>}

\* Operator indices passed to setOperatorMasterOut
MasterOutInputs == {1, 2, 4}

\* Names passed to loadPreset
PresetInputs == {"basic-fm", "feedback", "no-such-preset"}

\* ------------------------------------------------- program constants
NumOperators == 4
NumEnvelopes == 4
NumLFOs == 4
MatrixSize == 4
One == 1000
DefaultVelocity == 750
MinTime == 1
DepthScale == 10

OpIdx == 0 .. (NumOperators - 1)
MatIdx == 0 .. (MatrixSize - 1)

\* ------------------------------------------------- JavaScript objects
Has(obj, f) == f \in DOMAIN obj

Put(obj, f, v) == [k \in (DOMAIN obj) \cup {f} |-> IF k = f THEN v ELSE obj[k]]

Drop(obj, f) == [k \in (DOMAIN obj) \ {f} |-> obj[k]]

\* obj.f = src.g, where src.g may be undefined
Assign(obj, f, src, g) == IF Has(src, g) THEN Put(obj, f, src[g]) ELSE Drop(obj, f)

\* The fields f of two objects hold the same value (or are both undefined).
SameField(a, b, f) == /\ Has(a, f) = Has(b, f)
                      /\ Has(a, f) => a[f] = b[f]

Len0(arr) == Cardinality(DOMAIN arr)

Push(arr, v) == [k \in (DOMAIN arr) \cup {Len0(arr)} |-> IF k = Len0(arr) THEN v ELSE arr[k]]

\* The Number NaN, written as an integer that no time, level or slider value of
\* the model takes. Math.max and Math.min return it when an argument is NaN;
\* every comparison with it is false.
NaN == 0 - 1000000000

IsNaN(v) == v = NaN

\* Math.max(a, b)
Max(a, b) == IF IsNaN(a) \/ IsNaN(b) THEN NaN ELSE IF a >= b THEN a ELSE b

\* Math.min(a, b)
Min(a, b) == IF IsNaN(a) \/ IsNaN(b) THEN NaN ELSE IF a <= b THEN a ELSE b

\* a >= b and a <= b on Numbers
Geq(a, b) == ~IsNaN(a) /\ ~IsNaN(b) /\ a >= b

Leq(a, b) == ~IsNaN(a) /\ ~IsNaN(b) /\ a <= b

\* ----------------------------------------------------------- AudioParam
\* An AudioParam under automation: `value` is the live value, `from` the value
\* the pending ramp started at, `sched` the pending events, each a linear ramp
\* to `target` ending `at` milliseconds after the call that scheduled it.
NewParam(v) == [value |-> v, from |-> v, sched |-> <<>>]

CancelScheduledValues(p) == [p EXCEPT !.sched = <<>>]

SetValueAtTime(p, v) == [p EXCEPT !.value = v, !.from = v]

LinearRampToValueAtTime(p, v, t) == [p EXCEPT !.sched = Append(@, [target |-> v, at |-> t])]

\* The value the parameter is heading to once its pending automation is done.
FinalValue(p) == IF p.sched = <<>> THEN p.value ELSE p.sched[Len(p.sched)].target

\* The audio backend renders: the head ramp is half done ("mid") or done ("end").
RenderParam(p, mode) ==
    IF p.sched = <<>> THEN p
    ELSE IF mode = "mid"
         THEN [p EXCEPT !.value = (p.from + Head(p.sched).target) \div 2]
         ELSE [value |-> Head(p.sched).target, from |-> Head(p.sched).target,
               sched |-> Tail(p.sched)]

\* --------------------------------------------------------- ADSREnvelope
NewEnvelope(id) ==
    [id |-> id, attack |-> 10, decay |-> 100, sustain |-> 700, release |-> 300,
     isActive |-> FALSE, currentValue |-> 0]

setAttack(env, value) == [env EXCEPT !.attack = Max(MinTime, value)]

setDecay(env, value) == [env EXCEPT !.decay = Max(MinTime, value)]

setSustain(env, value) == [env EXCEPT !.sustain = Max(0, Min(One, value))]

setRelease(env, value) == [env EXCEPT !.release = Max(MinTime, value)]

\* The value the attack ramp of ADSREnvelope.trigger is anchored at.
TriggerStartValue(env, param) == env.currentValue

\* ADSREnvelope.trigger(param, velocity): the envelope and the parameter after it.
Envelope_trigger(env, param, velocity) ==
    LET peakLevel == velocity
        sustainLevel == IF IsNaN(env.sustain) THEN NaN ELSE (peakLevel * env.sustain) \div One
        p1 == SetValueAtTime(CancelScheduledValues(param), TriggerStartValue(env, param))
        p2 == LinearRampToValueAtTime(p1, peakLevel, env.attack)
        p3 == LinearRampToValueAtTime(p2, sustainLevel, env.attack + env.decay)
    IN  [env   |-> [env EXCEPT !.isActive = TRUE,
                               !.currentValue = sustainLevel],
         param |-> p3]

\* ADSREnvelope.release(param): the body of the method
Envelope_release(env, param) ==
    IF ~env.isActive THEN [env |-> env, param |-> param]
    ELSE LET p1 == CancelScheduledValues(param)
             currentValue == p1.value
             p2 == SetValueAtTime(p1, currentValue)
             p3 == LinearRampToValueAtTime(p2, 0, env.release)
         IN  [env   |-> [env EXCEPT !.isActive = FALSE, !.currentValue = 0],
              param |-> p3]

\* obj.name(...) finds the method of the class only when the object has no own
\* property of that name: an own property hides the prototype's method.
Callable(obj, name) == ~Has(obj, name)

\* A call that returned what the method body produced
Returned(r) == [env |-> r.env, param |-> r.param, threw |-> FALSE]

\* envelope.release(param) as the callers write it.  The constructor and
\* setRelease store the release time in the own property `release`, so the
\* call reads a number and raises a TypeError (not a function).
Call_release(env, param) ==
    IF Callable(env, "release") THEN Returned(Envelope_release(env, param))
    ELSE [env |-> env, param |-> param, threw |-> TRUE]

\* ADSREnvelope.reset(param)
Envelope_reset(env, param) ==
    [env   |-> [env EXCEPT !.isActive = FALSE, !.currentValue = 0],
     param |-> SetValueAtTime(CancelScheduledValues(param), 0)]

\* ADSREnvelope.setState(state): only the fields present are applied.
Envelope_setState(env, state) ==
    LET e1 == IF Has(state, "attack") THEN setAttack(env, state.attack) ELSE env
        e2 == IF Has(state, "decay") THEN setDecay(e1, state.decay) ELSE e1
        e3 == IF Has(state, "sustain") THEN setSustain(e2, state.sustain) ELSE e2
        e4 == IF Has(state, "release") THEN setRelease(e3, state.release) ELSE e3
    IN  e4

Envelope_getState(env) ==
    [attack |-> env.attack, decay |-> env.decay, sustain |-> env.sustain,
     release |-> env.release]

\* ------------------------------------------------------------- Operator
\* new Operator(id) followed by createNodes(): envelopeGain.gain.value = 1.
\* The field `envelope` (an index into FMSynthesizer.envelopes) is absent while
\* this.envelope is null.
NewOperator(id) ==
    [id |-> id, waveform |-> "sine", frequency |-> 440 * One, frequencyRatio |-> One,
     level |-> 500, modulationIndex |-> 0, phaseInvert |-> FALSE,
     voices |-> {}, nextVoiceId |-> 0,
     oscType |-> "sine", oscFrequency |-> 440 * One,
     envelopeGain |-> NewParam(One)]

\* AudioParam.setTargetAtTime(v, ...) raises a TypeError when v is not a finite
\* number; an operator result carries `threw` for that.
Ok(op) == [op |-> op, threw |-> FALSE]

Threw(op) == [op |-> op, threw |-> TRUE]

\* Operator.setWaveform(type), type taken from src.g (possibly undefined).  An
\* oscillator ignores a type that is not one of its enumeration values.
Operator_setWaveform(op, src, g) ==
    LET o1 == Assign(op, "waveform", src, g)
    IN  IF ~Has(src, g) THEN o1
        ELSE IF src[g] = "cosine" THEN [o1 EXCEPT !.oscType = "sine"]
        ELSE [o1 EXCEPT !.oscType = src[g]]

\* Operator.setFrequency(freq), freq taken from src.g (absent: not a number)
Operator_setFrequency(op, src, g) ==
    LET o1 == Assign(op, "frequency", src, g)
    IN  IF Has(src, g) THEN Ok([o1 EXCEPT !.oscFrequency = src[g]]) ELSE Threw(o1)

Operator_setFrequencyRatio(op, src, g) == Assign(op, "frequencyRatio", src, g)

Operator_setLevel(op, src, g) ==
    LET o1 == Assign(op, "level", src, g)
    IN  IF Has(src, g) THEN Ok(o1) ELSE Threw(o1)

Operator_setModulationIndex(op, src, g) ==
    LET o1 == Assign(op, "modulationIndex", src, g)
    IN  IF Has(src, g) THEN Ok(o1) ELSE Threw(o1)

Operator_setPhaseInvert(op, src, g) == Assign(op, "phaseInvert", src, g)

Operator_setEnvelope(op, envelope) == Put(op, "envelope", envelope)

\* Fault: the oscillator is set to the base frequency, the ratio is ignored.
ActualFreq_NoRatio(frequency, ratio) == frequency

\* frequency * this.frequencyRatio, both in thousandths; the product is taken
\* in two parts to stay within the integers of the model checker.
ActualFreq(frequency, ratio) ==
    (frequency \div One) * ratio + ((frequency % One) * ratio) \div One

\* Fault: an operator with no envelope still retunes and hands out a handle.
Operator_noteOn_Unguarded(op, envs, frequency, velocity) ==
    LET actualFreq == IF Has(op, "frequencyRatio")
                      THEN [v |-> ActualFreq(frequency, op.frequencyRatio)]
                      ELSE <<>>
        r1 == Operator_setFrequency(op, actualFreq, "v")
        voiceId == op.nextVoiceId
        o2 == [r1.op EXCEPT !.nextVoiceId = @ + 1, !.voices = @ \cup {voiceId}]
    IN  IF r1.threw THEN [op |-> r1.op, envs |-> envs, threw |-> TRUE]
        ELSE IF ~Has(op, "envelope")
        THEN [op |-> o2, envs |-> envs, voiceId |-> voiceId, threw |-> FALSE]
        ELSE LET t == Envelope_trigger(envs[op.envelope], r1.op.envelopeGain, velocity)
             IN  [op |-> [o2 EXCEPT !.envelopeGain = t.param],
                  envs |-> [envs EXCEPT ![op.envelope] = t.env],
                  voiceId |-> voiceId,
                  threw |-> FALSE]

\* Operator.noteOn(frequency, velocity), on the shared envelopes array `envs`.
\* The result has `voiceId` only when a handle is returned.
Operator_noteOn(op, envs, frequency, velocity) ==
    IF ~Has(op, "envelope") THEN [op |-> op, envs |-> envs, threw |-> FALSE]
    ELSE LET actualFreq == IF Has(op, "frequencyRatio")
                           THEN [v |-> ActualFreq(frequency, op.frequencyRatio)]
                           ELSE <<>>
             r1 == Operator_setFrequency(op, actualFreq, "v")
             t  == Envelope_trigger(envs[op.envelope], r1.op.envelopeGain, velocity)
             voiceId == op.nextVoiceId
         IN  IF r1.threw THEN [op |-> r1.op, envs |-> envs, threw |-> TRUE]
             ELSE [op |-> [r1.op EXCEPT !.envelopeGain = t.param,
                                        !.nextVoiceId = @ + 1,
                                        !.voices = @ \cup {voiceId}],
                   envs |-> [envs EXCEPT ![op.envelope] = t.env],
                   voiceId |-> voiceId,
                   threw |-> FALSE]

\* Operator.noteOff after its release call r: this.voices.delete(voiceId),
\* unless the call raised.
DeleteVoice(op, envs, voiceId, r) ==
    IF r.threw THEN [op |-> op, envs |-> envs, threw |-> TRUE]
    ELSE [op |-> [op EXCEPT !.envelopeGain = r.param, !.voices = @ \ {voiceId}],
          envs |-> [envs EXCEPT ![op.envelope] = r.env],
          threw |-> FALSE]

\* Operator.noteOff(voiceId)
Operator_noteOff(op, envs, voiceId) ==
    IF ~Has(op, "envelope") THEN [op |-> op, envs |-> envs, threw |-> FALSE]
    ELSE DeleteVoice(op, envs, voiceId, Call_release(envs[op.envelope], op.envelopeGain))

\* Operator.allNotesOff() after its release call r: this.voices.clear(),
\* unless the call raised.
ClearVoices(op, envs, r) ==
    IF r.threw THEN [op |-> op, envs |-> envs, threw |-> TRUE]
    ELSE [op |-> [op EXCEPT !.envelopeGain = r.param, !.voices = {}],
          envs |-> [envs EXCEPT ![op.envelope] = r.env],
          threw |-> FALSE]

\* Operator.allNotesOff()
Operator_allNotesOff(op, envs) ==
    IF Has(op, "envelope")
    THEN ClearVoices(op, envs, Call_release(envs[op.envelope], op.envelopeGain))
    ELSE [op |-> [op EXCEPT !.voices = {}], envs |-> envs, threw |-> FALSE]

\* ------------------------------------------------------------------ LFO
\* new LFO(id) followed by createNodes(): the output gate starts muted.
\* `targets` holds the parameters the panner is connected to, each written
\* <<operator, parameter>>.
NewLFO(id) ==
    [id |-> id, waveform |-> "sine", rate |-> 50, depth |-> 500, isRunning |-> FALSE,
     gate |-> 0, targets |-> {}]

\* LFO.connect(target): this.panner.connect(target)
LFO_connect(lfo, target) == [lfo EXCEPT !.targets = @ \cup {target}]

\* LFO.disconnect(target): this.panner.disconnect(target)
LFO_disconnect(lfo, target) == [lfo EXCEPT !.targets = @ \ {target}]

\* LFO.start(): `gate` is the target of the output gain (rates are in 0.1 Hz).
\* The guards of start() and stop(), `this.outputGain && ...`: whether the call
\* schedules gate automation (the output gain exists once createNodes() ran).
StartsGate_Always(lfo) == TRUE

StartsGate(lfo) == ~lfo.isRunning

StopsGate(lfo) == lfo.isRunning

LFO_start(lfo) ==
    IF StartsGate(lfo) THEN [lfo EXCEPT !.gate = One, !.isRunning = TRUE] ELSE lfo

LFO_stop(lfo) ==
    IF StopsGate(lfo) THEN [lfo EXCEPT !.gate = 0, !.isRunning = FALSE] ELSE lfo

LFO_setWaveform(lfo, type) == [lfo EXCEPT !.waveform = type]

LFO_setRate(lfo, rate) == [lfo EXCEPT !.rate = rate]

LFO_setDepth(lfo, depth) == [lfo EXCEPT !.depth = depth]

LFO_getState(lfo) ==
    [waveform |-> lfo.waveform, rate |-> lfo.rate, depth |-> lfo.depth,
     isRunning |-> lfo.isRunning]

\* state.isRunning read as a condition: undefined is falsy.
Truthy(obj, f) == Has(obj, f) /\ obj[f]

\* LFO.setState(state)
LFO_setState(lfo, state) ==
    LET l1 == IF Has(state, "waveform") THEN LFO_setWaveform(lfo, state.waveform) ELSE lfo
        l2 == IF Has(state, "rate") THEN LFO_setRate(l1, state.rate) ELSE l1
        l3 == IF Has(state, "depth") THEN LFO_setDepth(l2, state.depth) ELSE l2
    IN  IF Truthy(state, "isRunning") /\ ~l3.isRunning THEN LFO_start(l3)
        ELSE IF ~Truthy(state, "isRunning") /\ l3.isRunning THEN LFO_stop(l3)
        ELSE l3

\* ----------------------------------------------------- ModulationMatrix
\* The matrix operations act on a record st:
\*   m       the ModulationMatrix object: masterGain ("null" or "masterGain"),
\*           connections[i][j] (<<>> for null, else [depth, gain]),
\*           masterOutputs[i] ("null" or "masterGain");
\*   links   the audio graph: links[<<i, j>>] counts the gain nodes wired from
\*           operator i's output to operator j's frequency parameter;
\*   master  the operators whose output is wired to the master gain;
\*   n       operators.length as the matrix sees it;
\*   created, torn   the createGain and teardown calls made by the operation.
NoConnection == <<>>

NewMatrix ==
    [masterGain |-> "null",
     connections |-> [i \in MatIdx |-> [j \in MatIdx |-> NoConnection]],
     masterOutputs |-> [i \in MatIdx |-> "null"]]

NoLinks == [c \in MatIdx \X MatIdx |-> 0]

\* this.connections[s] && this.connections[s][t]
Connected(m, s, t) == s \in MatIdx /\ t \in MatIdx /\ m.connections[s][t] # NoConnection

\* The try block of clearModulation: getOutput().disconnect(gainNode) raises an
\* error when the graph holds no such link (`caught` counts the errors the
\* catch clause swallowed); otherwise the link goes.
Teardown(st, s, t) ==
    IF st.links[<<s, t>>] > 0
    THEN [st EXCEPT !.links[<<s, t>>] = @ - 1, !.torn = @ + 1]
    ELSE [st EXCEPT !.caught = @ + 1, !.torn = @ + 1]

\* Fault: clearModulation without the try block: an error of the backend leaves
\* the method before the table is updated.
clearModulation_Unguarded(st, s, t) ==
    IF Connected(st.m, s, t) /\ st.links[<<s, t>>] > 0
    THEN [Teardown(st, s, t) EXCEPT !.m.connections[s][t] = NoConnection]
    ELSE st

\* ModulationMatrix.clearModulation(sourceIndex, targetIndex)
clearModulation(st, s, t) ==
    IF Connected(st.m, s, t)
    THEN [Teardown(st, s, t) EXCEPT !.m.connections[s][t] = NoConnection]
    ELSE st

\* Fault: setModulation that leaves the pair's previous link in place.
RemoveExisting_Skipped(st, s, t) == st

\* The teardown of the pair's previous connection in setModulation.
RemoveExisting(st, s, t) == IF Connected(st.m, s, t) THEN clearModulation(st, s, t) ELSE st

\* ModulationMatrix.setModulation(sourceIndex, targetIndex, depth)
setModulation(st, s, t, depth) ==
    IF s < 0 \/ s >= st.n THEN st
    ELSE IF t < 0 \/ t >= st.n THEN st
    ELSE LET st1 == RemoveExisting(st, s, t)
         IN  IF depth > 0
             THEN [st1 EXCEPT !.links[<<s, t>>] = @ + 1,
                              !.created = @ + 1,
                              !.m.connections[s][t] =
                                  [depth |-> depth, gain |-> depth * DepthScale]]
             ELSE st1

\* Fault: updateModulationDepth that always rewires the pair.
updateModulationDepth_Rewired(st, s, t, depth) == setModulation(st, s, t, depth)

\* ModulationMatrix.updateModulationDepth(sourceIndex, targetIndex, depth)
updateModulationDepth(st, s, t, depth) ==
    IF Connected(st.m, s, t)
    THEN [st EXCEPT !.m.connections[s][t] = [depth |-> depth, gain |-> depth * DepthScale]]
    ELSE setModulation(st, s, t, depth)

\* ModulationMatrix.setMasterOutput: the class defines it twice, as
\* setMasterOutput(masterNode) and as setMasterOutput(opIndex, enabled); the
\* later definition is the method, whatever the arguments.  `arg` is
\* [index |-> i] for a number and [node |-> x] for an audio node: a node
\* compares false with every number and indexes no operator.
setMasterOutput(st, arg, enabled) ==
    IF ~Has(arg, "index") THEN st
    ELSE IF arg.index < 0 \/ arg.index >= st.n THEN st
    ELSE LET i == arg.index
             st1 == IF st.m.masterOutputs[i] # "null"
                    THEN [st EXCEPT !.master = @ \ {i}, !.m.masterOutputs[i] = "null"]
                    ELSE st
         IN  IF enabled /\ st1.m.masterGain # "null"
             THEN [st1 EXCEPT !.master = @ \cup {i},
                              !.m.masterOutputs[i] = st1.m.masterGain]
             ELSE st1

\* The 4x4 cells in the order the loops visit them.
Cells == [k \in 1 .. (MatrixSize * MatrixSize) |->
              <<(k - 1) \div MatrixSize, (k - 1) % MatrixSize>>]

\* The loops run one cell after the other: each cell's result is computed
\* (st1.torn is read) before the next cell is visited.
RECURSIVE ClearFrom(_, _)
ClearFrom(st, k) ==
    IF k > Len(Cells) THEN st
    ELSE LET st1 == clearModulation(st, Cells[k][1], Cells[k][2])
         IN  IF st1.torn >= 0 THEN ClearFrom(st1, k + 1) ELSE st

\* ModulationMatrix.clearAll()
clearAll(st) == ClearFrom(st, 1)

\* Fault: setMatrix that reads the grid transposed.
GridCell_Transposed(matrix, i, j) == matrix[j][i]

\* matrix[i][j] || 0 for a grid given as an array of arrays
GridCell(matrix, i, j) == matrix[i][j]

RECURSIVE SetMatrixFrom(_, _, _)
SetMatrixFrom(st, matrix, k) ==
    IF k > Len(Cells) THEN st
    ELSE LET i == Cells[k][1]
             j == Cells[k][2]
             st1 == IF i \in DOMAIN matrix /\ j \in DOMAIN matrix[i]
                    THEN setModulation(st, i, j, GridCell(matrix, i, j))
                    ELSE st
         IN  IF st1.created >= 0 THEN SetMatrixFrom(st1, matrix, k + 1) ELSE st

\* ModulationMatrix.setMatrix(matrix)
setMatrix(st, matrix) == SetMatrixFrom(st, matrix, 1)

\* ModulationMatrix.getMatrix()
getMatrix(m) ==
    [i \in MatIdx |-> [j \in MatIdx |->
        IF m.connections[i][j] # NoConnection THEN m.connections[i][j].depth ELSE 0]]

hasModulation(m, s, t) == Connected(m, s, t)

getModulationDepth(m, s, t) == IF Connected(m, s, t) THEN m.connections[s][t].depth ELSE 0

Row(a, b, c, d) == [j \in MatIdx |-> CASE j = 0 -> a [] j = 1 -> b [] j = 2 -> c [] OTHER -> d]

Grid(r0, r1, r2, r3) == [i \in MatIdx |-> CASE i = 0 -> r0 [] i = 1 -> r1 [] i = 2 -> r2 [] OTHER -> r3]

\* The preset table of ModulationMatrix.loadPreset
Presets ==
    [name \in {"basic-fm", "complex-fm", "feedback", "parallel", "cascade"} |->
      CASE name = "basic-fm" ->
             [matrix |-> Grid(Row(0, 0, 0, 0), Row(50, 0, 0, 0), Row(0, 0, 0, 0), Row(0, 1, 0, 0)),
              master |-> Row(0, 1, 0, 0)]
        [] name = "complex-fm" ->
             [matrix |-> Grid(Row(0, 30, 0, 0), Row(40, 0, 20, 0), Row(0, 25, 0, 35), Row(0, 0, 45, 0)),
              master |-> Row(0, 0, 0, 1)]
        [] name = "feedback" ->
             [matrix |-> Grid(Row(50, 40, 0, 0), Row(0, 0, 30, 0), Row(0, 0, 60, 20), Row(0, 0, 0, 0)),
              master |-> Row(0, 0, 1, 0)]
        [] name = "parallel" ->
             [matrix |-> Grid(Row(0, 0, 0, 0), Row(30, 0, 0, 0), Row(40, 0, 0, 0), Row(0, 0, 0, 0)),
              master |-> Row(0, 1, 1, 0)]
        [] OTHER ->
             [matrix |-> Grid(Row(0, 25, 0, 0), Row(0, 0, 30, 0), Row(0, 0, 0, 35), Row(0, 0, 0, 0)),
              master |-> Row(0, 0, 0, 1)]]

\* The body of loadPreset's loop over a known preset, from cell k on: the cells
\* of row i, then setMasterOutput(i, true) where preset.master[i] is set.
RECURSIVE ApplyPresetFrom(_, _, _)
ApplyPresetFrom(st, preset, k) ==
    IF k > Len(Cells) THEN st
    ELSE LET i == Cells[k][1]
             j == Cells[k][2]
             st1 == IF preset.matrix[i][j] > 0
                    THEN setModulation(st, i, j, preset.matrix[i][j])
                    ELSE st
             st2 == IF j = MatrixSize - 1 /\ preset.master[i] # 0
                    THEN setMasterOutput(st1, [index |-> i], TRUE)
                    ELSE st1
         IN  IF st2.created >= 0 THEN ApplyPresetFrom(st2, preset, k + 1) ELSE st

\* Fault: loadPreset that does not clear the matrix first.
PresetClear_Skipped(st) == st

\* The clearing loadPreset does before it looks the name up.
PresetClear(st) == clearAll(st)

\* ModulationMatrix.loadPreset(presetName)
loadPreset(st, presetName) ==
    LET st1 == PresetClear(st)
    IN  IF presetName \in DOMAIN Presets
        THEN ApplyPresetFrom(st1, Presets[presetName], 1)
        ELSE st1

\* ModulationMatrix.dispose()
Matrix_dispose(st) ==
    LET st1 == clearAll(st)
        off(s, i) == IF s.m.masterOutputs[i] # "null" THEN setMasterOutput(s, [index |-> i], FALSE) ELSE s
    IN  off(off(off(off(st1, 0), 1), 2), 3)

\* -------------------------------------------------------- FMSynthesizer
VARIABLES
    isInitialized,     \* FMSynthesizer.isInitialized
    audioContexts,     \* how many AudioContext objects initAudio() has created
    pendingInits,      \* how many init() calls wait at `await this.initAudio()`
    masterTuning,      \* A4 frequency, Hz
    masterVolume,
    glideTime,
    operators,         \* FMSynthesizer.operators (shared with the matrix)
    envelopes,         \* FMSynthesizer.envelopes
    lfos,              \* FMSynthesizer.lfos
    activeVoices,      \* Map: midi -> voice
    modulationMatrix,  \* the ModulationMatrix object, NoMatrix while null
    modLinks,          \* audio graph: operator -> gain node -> frequency links
    masterLinks,       \* audio graph: operators wired to the master gain
    lfoRouter,         \* the LFOModulationRouter object, NoRouter while null
    lfoLinks,          \* audio graph: how many depth gains link an LFO to a parameter
    stopwatch,         \* state.stopwatch
    timer,             \* state.timer
    clock,             \* Date.now(), in ms
    frames,            \* the callbacks requestAnimationFrame holds, and the next id
    timeRecords,       \* localStorage 'timeRecords', newest first
    runTime,           \* the time the clock advanced while the stopwatch ran, since its reset
    last               \* the last call made: its name, arguments and outcome

vars == <<isInitialized, audioContexts, pendingInits, masterTuning, masterVolume, glideTime, operators, envelopes,
          lfos, activeVoices, modulationMatrix, modLinks, masterLinks, lfoRouter,
          lfoLinks, stopwatch, timer, clock, frames, timeRecords, runTime, last>>

routerVars == <<lfoRouter, lfoLinks>>

initVars == <<isInitialized, audioContexts, pendingInits>>

\* The stopwatch and timer page
appVars == <<stopwatch, timer, clock, frames, timeRecords, runTime>>

noteVars == <<operators, envelopes, activeVoices>>

matrixVars == <<modulationMatrix, modLinks, masterLinks>>

masterVars == <<masterTuning, masterVolume, glideTime>>

NoMatrix == <<>>

NoRouter == <<>>

\* new LFOModulationRouter(), setLFOs(lfos), setOperators(operators):
\* initializeConnections() builds both tables, every cell { frequency: null,
\* level: null }, written as the object without fields.
NewRouter(nl, no) ==
    [connections |-> [l \in 0 .. (nl - 1) |-> [o \in 0 .. (no - 1) |-> <<>>]],
     depthNodes  |-> [l \in 0 .. (nl - 1) |-> [o \in 0 .. (no - 1) |-> <<>>]]]

Val(v) == [v |-> v]

\* new FMSynthesizer()
Init ==
    /\ isInitialized = FALSE
    /\ audioContexts = 0
    /\ pendingInits = 0
    /\ masterTuning = 440
    /\ masterVolume = 700
    /\ glideTime = 0
    /\ operators = <<>>
    /\ envelopes = <<>>
    /\ lfos = <<>>
    /\ activeVoices = <<>>
    /\ modulationMatrix = NoMatrix
    /\ modLinks = NoLinks
    /\ masterLinks = {}
    /\ lfoRouter = NoRouter
    /\ lfoLinks = <<>>
    /\ stopwatch = [isRunning |-> FALSE, startTime |-> 0, elapsedTime |-> 0,
                    lapTimes |-> <<>>, animationId |-> NoFrame]
    /\ timer = [isRunning |-> FALSE, isPaused |-> FALSE, totalDuration |-> 0,
                remainingTime |-> 0, endTime |-> 0, animationId |-> NoFrame]
    /\ clock = PageLoad
    /\ frames = [next |-> 1, pending |-> {}]
    /\ timeRecords = <<>>
    /\ runTime = 0
    /\ last = [op |-> "new"]

\* The matrix, as the matrix operations take it
MatrixState(m, n) ==
    [m |-> m, links |-> modLinks, master |-> masterLinks, n |-> n, created |-> 0, torn |-> 0,
     caught |-> 0]

\* initEnvelopes(): one envelope
InitEnvelope(i) == setRelease(setSustain(setDecay(setAttack(NewEnvelope(i), 10), 300), 500), 300)

\* initOperators(): one operator, given the envelopes created before it
InitOperator(i, envs) ==
    LET o1 == Operator_setWaveform(NewOperator(i), Val("sine"), "v")
        o2 == Operator_setFrequencyRatio(o1, Val(One), "v")
        o3 == Operator_setLevel(o2, Val(0), "v").op
        o4 == Operator_setModulationIndex(o3, Val(0), "v").op
    IN  IF i \in DOMAIN envs THEN Operator_setEnvelope(o4, i) ELSE o4

\* initLFOs(): one LFO
InitLFO(i) == LFO_setDepth(LFO_setRate(LFO_setWaveform(NewLFO(i), "sine"), 50), 200)

\* The master-gain registration of initModulationMatrix:
\* this.modulationMatrix.setMasterOutput(this.masterGain)
RegisterMasterGain(st) == setMasterOutput(st, [node |-> "masterGain"], FALSE)

\* initModulationMatrix()
InitModulationMatrix(n) ==
    LET st0 == MatrixState(NewMatrix, n)
        st1 == RegisterMasterGain(st0)
        st2 == setModulation(st1, 0, 1, 50)
    IN  setModulation(st2, 1, 2, 30)

\* applyInitialPreset(): the operators
PresetOperators(ops) ==
    LET set(o, ratio, level, index) ==
            Operator_setModulationIndex(
                Operator_setLevel(Operator_setFrequencyRatio(o, Val(ratio), "v"),
                                  Val(level), "v").op,
                Val(index), "v").op
    IN  [ops EXCEPT ![0] = set(@, 2 * One, 0, 10),
                    ![1] = set(@, One, 500, 0),
                    ![2] = Operator_setLevel(@, Val(0), "v").op,
                    ![3] = Operator_setLevel(@, Val(0), "v").op]

\* applyInitialPreset(): the matrix
PresetMatrix(st) == setMasterOutput(setModulation(clearAll(st), 0, 1, 50), [index |-> 1], TRUE)

\* applyInitialPreset(): the bell envelope
PresetEnvelopes(envs) ==
    [envs EXCEPT ![1] = setRelease(setSustain(setDecay(setAttack(@, 1), 500), 0), 1000)]

\* n calls of arr.push(F(i)), i = 0 .. n - 1
Pushed(arr, n, F(_)) ==
    [k \in 0 .. (Len0(arr) + n - 1) |-> IF k < Len0(arr) THEN arr[k] ELSE F(k - Len0(arr))]

\* initEnvelopes(), on the envelopes array the synthesizer holds
InitEnvelopes(envs) == Pushed(envs, NumEnvelopes, InitEnvelope)

\* initOperators(): operator i takes this.envelopes[i]
InitOperators(ops, envs) == Pushed(ops, NumOperators, LAMBDA i : InitOperator(i, envs))

\* initLFOs()
InitLFOs(ls) == Pushed(ls, NumLFOs, InitLFO)

\* What init() does after `await this.initAudio()`: initEnvelopes,
\* initOperators, initLFOs, initModulationMatrix, initLFORouter and
\* applyInitialPreset, on the collections the synthesizer holds by then.
InitResult ==
    [envelopes |-> PresetEnvelopes(InitEnvelopes(envelopes)),
     operators |-> PresetOperators(InitOperators(operators, InitEnvelopes(envelopes))),
     lfos      |-> InitLFOs(lfos),
     st        |-> PresetMatrix(InitModulationMatrix(Len0(operators) + NumOperators)),
     router    |-> NewRouter(Len0(lfos) + NumLFOs, Len0(operators) + NumOperators)]

\* if (this.isInitialized) return;
InitStarts == ~isInitialized

\* FMSynthesizer.init() up to `await this.initAudio()`: the guard, then
\* initAudio() creates the audio context and the master chain. The constructor
\* of the context may raise (created = FALSE); the call is then rejected.
InitCall(created) ==
    /\ audioContexts < MaxInits
    /\ IF InitStarts /\ created
       THEN /\ audioContexts' = audioContexts + 1
            /\ pendingInits' = pendingInits + 1
       ELSE UNCHANGED <<audioContexts, pendingInits>>
    /\ last' = [op |-> "init.call", started |-> InitStarts, rejected |-> InitStarts /\ ~created]
    /\ UNCHANGED <<isInitialized, masterVars, appVars, operators, envelopes, lfos, activeVoices,
                   matrixVars, routerVars>>

\* FMSynthesizer.init() from `await this.initAudio()` on, for one of the calls
\* that wait there. When the context's resume() is rejected the call ends in
\* the catch block, which rethrows.
InitResume(resumed) ==
    /\ pendingInits > 0
    /\ pendingInits' = pendingInits - 1
    /\ IF resumed
       THEN /\ envelopes' = InitResult.envelopes
            /\ operators' = InitResult.operators
            /\ lfos' = InitResult.lfos
            /\ modulationMatrix' = InitResult.st.m
            /\ modLinks' = InitResult.st.links
            /\ masterLinks' = InitResult.st.master
            /\ lfoRouter' = InitResult.router
            /\ isInitialized' = TRUE
       ELSE UNCHANGED <<isInitialized, operators, envelopes, lfos, matrixVars, lfoRouter>>
    /\ last' = [op |-> "init.resume", rejected |-> ~resumed]
    /\ UNCHANGED <<audioContexts, masterVars, appVars, activeVoices, lfoLinks>>

\* FMSynthesizer.init(), called and run to its end with nothing in between
SynthInit ==
    /\ ~isInitialized
    /\ envelopes' = InitResult.envelopes
    /\ operators' = InitResult.operators
    /\ lfos' = InitResult.lfos
    /\ modulationMatrix' = InitResult.st.m
    /\ modLinks' = InitResult.st.links
    /\ masterLinks' = InitResult.st.master
    /\ lfoRouter' = InitResult.router
    /\ isInitialized' = TRUE
    /\ audioContexts' = audioContexts + 1
    /\ last' = [op |-> "init"]
    /\ UNCHANGED <<pendingInits, masterVars, appVars, activeVoices, lfoLinks>>

\* 2^(s/12) for s = 0 .. 11, in ten-thousandths
SemitoneRatio ==
    <<10000, 10595, 11225, 11892, 12599, 13348, 14142, 14983, 15874, 16818, 17818, 18877>>

RECURSIVE Pow10(_)
Pow10(q) == IF q <= 0 THEN 1 ELSE 10 * Pow10(q - 1)

RECURSIVE Pow2(_)
Pow2(k) == IF k <= 0 THEN 1 ELSE 2 * Pow2(k - 1)

\* FMSynthesizer.midiToFrequency(midi): masterTuning * 2^((midi - 69) / 12),
\* the tuning in Hz, the result in thousandths of a Hz
midiToFrequency(tuning, midi) ==
    LET d == midi - 69
        octave == d \div 12
        base == tuning * SemitoneRatio[(d % 12) + 1]
    IN  IF octave >= 0 THEN (base * Pow2(octave)) \div 10
        ELSE base \div (10 * Pow2(0 - octave))

\* The three collections the note operations change; `threw` tells whether the
\* operation has raised an exception.
NoteState ==
    [operators |-> operators, envelopes |-> envelopes, activeVoices |-> activeVoices,
     threw |-> FALSE]

\* The outcome r of one operator's call, written back to the note state
OperatorStep(ns, k, r) ==
    [ns EXCEPT !.operators[k] = r.op, !.envelopes = r.envs, !.threw = r.threw]

\* this.operators.forEach((op, i) => ... op.noteOff(voice.operatorVoices[i]));
\* an exception raised by an operator ends the loop.
RECURSIVE ReleaseFrom(_, _, _)
ReleaseFrom(ns, handles, k) ==
    IF k >= Len0(ns.operators) \/ ns.threw THEN ns
    ELSE IF Has(handles, k)
         THEN ReleaseFrom(OperatorStep(ns, k, Operator_noteOff(ns.operators[k], ns.envelopes,
                                                               handles[k])),
                          handles, k + 1)
         ELSE ReleaseFrom(ns, handles, k + 1)

\* this.activeVoices.delete(midi), reached unless the loop raised
DeleteNote(ns, midi) == IF ns.threw THEN ns ELSE [ns EXCEPT !.activeVoices = Drop(@, midi)]

\* FMSynthesizer.noteOff(midi), once initialized
Synth_noteOff(ns, midi) ==
    IF ~Has(ns.activeVoices, midi) THEN ns
    ELSE DeleteNote(ReleaseFrom(ns, ns.activeVoices[midi].operatorVoices, 0), midi)

\* The implicit note-off of FMSynthesizer.noteOn for a note that is sounding
StopExisting(ns, midi) == IF Has(ns.activeVoices, midi) THEN Synth_noteOff(ns, midi) ELSE ns

\* this.operators.forEach(op => voice.operatorVoices.push(op.noteOn(...))); an
\* exception raised by an operator ends the loop.
RECURSIVE TriggerFrom(_, _, _, _, _)
TriggerFrom(ns, frequency, velocity, handles, k) ==
    IF k >= Len0(ns.operators)
    THEN [ns |-> ns, operatorVoices |-> handles, threw |-> FALSE]
    ELSE LET r == Operator_noteOn(ns.operators[k], ns.envelopes, frequency, velocity)
             ns1 == [ns EXCEPT !.operators[k] = r.op, !.envelopes = r.envs]
         IN  IF r.threw THEN [ns |-> ns1, operatorVoices |-> handles, threw |-> TRUE]
             ELSE TriggerFrom(ns1, frequency, velocity,
                              IF Has(r, "voiceId") THEN Put(handles, k, r.voiceId) ELSE handles,
                              k + 1)

\* The velocity FMSynthesizer.noteOn(midi, noteName, velocity = 0.75) uses
NoteOnVelocity(args) == IF Has(args, "velocity") THEN args.velocity ELSE DefaultVelocity

\* Fault: the voice is stored without the handles the operators returned.
Register_NoHandles(r, midi, frequency, velocity) ==
    [ns |-> IF r.threw THEN r.ns
            ELSE [r.ns EXCEPT !.activeVoices =
                      Put(@, midi, [midi |-> midi, frequency |-> frequency,
                                    velocity |-> velocity, operatorVoices |-> <<>>])],
     threw |-> r.threw]

\* this.activeVoices.set(midi, voice), reached unless an operator raised
Register(r, midi, frequency, velocity) ==
    [ns |-> IF r.threw THEN r.ns
            ELSE [r.ns EXCEPT !.activeVoices =
                      Put(@, midi, [midi |-> midi, frequency |-> frequency,
                                    velocity |-> velocity,
                                    operatorVoices |-> r.operatorVoices])],
     threw |-> r.threw]

\* FMSynthesizer.noteOn after its implicit note-off left ns1
TriggerVoice(ns1, midi, frequency, velocity) ==
    IF ns1.threw THEN [ns |-> ns1, threw |-> TRUE]
    ELSE Register(TriggerFrom(ns1, frequency, velocity, <<>>, 0), midi, frequency, velocity)

\* FMSynthesizer.noteOn(midi, noteName, velocity), once initialized
Synth_noteOn(ns, tuning, args) ==
    TriggerVoice(StopExisting(ns, args.midi), args.midi,
                 midiToFrequency(tuning, args.midi), NoteOnVelocity(args))

\* The note the loop over the active voices visits first
FirstNote(notes) == CHOOSE n \in notes : \A x \in notes : n <= x

\* this.activeVoices.forEach((voice, midi) => this.noteOff(midi)); an exception
\* ends the loop.
RECURSIVE AllOff(_, _)
AllOff(ns, notes) ==
    IF notes = {} \/ ns.threw THEN ns
    ELSE AllOff(Synth_noteOff(ns, FirstNote(notes)), notes \ {FirstNote(notes)})

\* this.operators.forEach(op => op.allNotesOff()); an exception ends the loop.
RECURSIVE OperatorsOffFrom(_, _)
OperatorsOffFrom(ns, k) ==
    IF k >= Len0(ns.operators) \/ ns.threw THEN ns
    ELSE OperatorsOffFrom(OperatorStep(ns, k, Operator_allNotesOff(ns.operators[k],
                                                                  ns.envelopes)),
                          k + 1)

\* this.activeVoices.clear() and the operators' allNotesOff, reached unless a
\* noteOff raised
ClearAndStop(ns) ==
    IF ns.threw THEN ns ELSE OperatorsOffFrom([ns EXCEPT !.activeVoices = <<>>], 0)

\* FMSynthesizer.allNotesOff().  Before init, noteOff returns at once.
Synth_allNotesOff(ns, initialized) ==
    ClearAndStop(IF initialized THEN AllOff(ns, DOMAIN ns.activeVoices) ELSE ns)

\* The calls FMSynthesizer.noteOn is made with
NoteOnArgs ==
    UNION {{[midi |-> n]}
           \cup {[midi |-> n, noteName |-> x] : x \in NoteNameInputs}
           \cup {[midi |-> n, noteName |-> x, velocity |-> v] :
                     x \in NoteNameInputs, v \in VelocityInputs} : n \in Notes}

NoteOn(args) ==
    /\ isInitialized
    /\ \A k \in DOMAIN operators : operators[k].nextVoiceId < MaxVoiceId
    /\ LET r == Synth_noteOn(NoteState, masterTuning, args)
       IN  /\ operators' = r.ns.operators
           /\ envelopes' = r.ns.envelopes
           /\ activeVoices' = r.ns.activeVoices
           /\ last' = [op |-> "noteOn", args |-> args,
                       retrigger |-> Has(activeVoices, args.midi), threw |-> r.threw]
    /\ UNCHANGED <<routerVars, initVars, appVars, masterVars, lfos, matrixVars>>

NoteOff(midi) ==
    /\ isInitialized
    /\ LET ns == Synth_noteOff(NoteState, midi)
       IN  /\ operators' = ns.operators
           /\ envelopes' = ns.envelopes
           /\ activeVoices' = ns.activeVoices
           /\ last' = [op |-> "noteOff", midi |-> midi,
                       sounding |-> Has(activeVoices, midi), threw |-> ns.threw]
    /\ UNCHANGED <<routerVars, initVars, appVars, masterVars, lfos, matrixVars>>

AllNotesOff_StopsLFOs ==
    /\ LET ns == Synth_allNotesOff(NoteState, isInitialized)
       IN  /\ operators' = ns.operators
           /\ envelopes' = ns.envelopes
           /\ activeVoices' = ns.activeVoices
           /\ last' = [op |-> "allNotesOff", sounding |-> Cardinality(DOMAIN activeVoices),
                       threw |-> ns.threw]
    /\ lfos' = [i \in DOMAIN lfos |-> LFO_stop(lfos[i])]
    /\ UNCHANGED <<routerVars, initVars, appVars, masterVars, matrixVars>>

AllNotesOff ==
    /\ LET ns == Synth_allNotesOff(NoteState, isInitialized)
       IN  /\ operators' = ns.operators
           /\ envelopes' = ns.envelopes
           /\ activeVoices' = ns.activeVoices
           /\ last' = [op |-> "allNotesOff", sounding |-> Cardinality(DOMAIN activeVoices),
                       threw |-> ns.threw]
    /\ UNCHANGED <<routerVars, initVars, appVars, masterVars, lfos, matrixVars>>

\* The audio backend renders the envelope gains' automation.
Render(mode) ==
    /\ \E k \in DOMAIN operators : operators[k].envelopeGain.sched # <<>>
    /\ operators' = [k \in DOMAIN operators |->
                        [operators[k] EXCEPT !.envelopeGain = RenderParam(@, mode)]]
    /\ last' = [op |-> "render", mode |-> mode]
    /\ UNCHANGED <<routerVars, initVars, appVars, masterVars, envelopes, lfos, activeVoices, matrixVars>>

\* A direct call of a method of operator k's envelope on the operator's
\* envelope gain; r is what the call left.
EnvelopeCall(k, r, lst) ==
    /\ operators' = [operators EXCEPT ![k].envelopeGain = r.param]
    /\ envelopes' = [envelopes EXCEPT ![operators[k].envelope] = r.env]
    /\ last' = lst
    /\ UNCHANGED <<routerVars, initVars, appVars, masterVars, lfos, activeVoices, matrixVars>>

HasEnvelope(k) == k \in DOMAIN operators /\ Has(operators[k], "envelope")

\* op.envelope.trigger(op.envelopeGain.gain, velocity)
EnvelopeTrigger(k, velocity) ==
    /\ HasEnvelope(k)
    /\ EnvelopeCall(k, Envelope_trigger(envelopes[operators[k].envelope],
                                        operators[k].envelopeGain, velocity),
                    [op |-> "Envelope.trigger", k |-> k, velocity |-> velocity])

\* op.envelope.release(op.envelopeGain.gain)
EnvelopeRelease(k) ==
    /\ HasEnvelope(k)
    /\ LET r == Call_release(envelopes[operators[k].envelope], operators[k].envelopeGain)
       IN  EnvelopeCall(k, r, [op |-> "Envelope.release", k |-> k,
                               active |-> envelopes[operators[k].envelope].isActive,
                               threw |-> r.threw])

\* op.envelope.reset(op.envelopeGain.gain)
EnvelopeReset(k) ==
    /\ HasEnvelope(k)
    /\ EnvelopeCall(k, Envelope_reset(envelopes[operators[k].envelope],
                                      operators[k].envelopeGain),
                    [op |-> "Envelope.reset", k |-> k])

\* FMSynthesizer.assignEnvelopeToOperator(opIndex, envIndex)
AssignEnvelopeToOperator(opIndex, envIndex) ==
    /\ operators' = IF opIndex \in DOMAIN operators /\ envIndex \in DOMAIN envelopes
                    THEN [operators EXCEPT ![opIndex] = Operator_setEnvelope(@, envIndex)]
                    ELSE operators
    /\ last' = [op |-> "assignEnvelopeToOperator", opIndex |-> opIndex, envIndex |-> envIndex]
    /\ UNCHANGED <<routerVars, initVars, appVars, masterVars, envelopes, lfos, activeVoices, matrixVars>>

\* A direct call of Operator.noteOff(voiceId) on operator k
OperatorNoteOff(k, voiceId) ==
    /\ k \in DOMAIN operators
    /\ LET r == Operator_noteOff(operators[k], envelopes, voiceId)
       IN  /\ operators' = [operators EXCEPT ![k] = r.op]
           /\ envelopes' = r.envs
           /\ last' = [op |-> "Operator.noteOff", k |-> k, voiceId |-> voiceId,
                       known |-> voiceId \in operators[k].voices, threw |-> r.threw]
    /\ UNCHANGED <<routerVars, initVars, appVars, masterVars, lfos, activeVoices, matrixVars>>

\* A direct call of Operator.setEnvelope(null) on operator k
OperatorSetEnvelopeNull(k) ==
    /\ k \in DOMAIN operators
    /\ operators' = [operators EXCEPT ![k] = Drop(@, "envelope")]
    /\ last' = [op |-> "Operator.setEnvelope", k |-> k]
    /\ UNCHANGED <<routerVars, initVars, appVars, masterVars, envelopes, lfos, activeVoices,
                   matrixVars>>

\* A direct call of Operator.noteOn(frequency, velocity) on operator k
OperatorNoteOn(k, frequency, velocity) ==
    /\ k \in DOMAIN operators
    /\ operators[k].nextVoiceId < MaxVoiceId
    /\ LET r == Operator_noteOn(operators[k], envelopes, frequency, velocity)
       IN  /\ operators' = [operators EXCEPT ![k] = r.op]
           /\ envelopes' = r.envs
           /\ last' = [op |-> "Operator.noteOn", k |-> k, returned |-> Has(r, "voiceId"),
                       threw |-> r.threw]
    /\ UNCHANGED <<routerVars, initVars, appVars, masterVars, lfos, activeVoices, matrixVars>>

NextNotes ==
    \/ SynthInit
    \/ \E args \in NoteOnArgs : NoteOn(args)
    \/ \E midi \in Notes : NoteOff(midi)
    \/ AllNotesOff
    \/ \E mode \in {"mid", "end"} : Render(mode)

SpecNotes == Init /\ [][NextNotes]_vars

\* The note operations and envelope reassignment
NextEnvelopes ==
    \/ NextNotes
    \/ \E k \in AssignOpInputs, e \in AssignEnvInputs : AssignEnvelopeToOperator(k, e)

SpecEnvelopes == Init /\ [][NextEnvelopes]_vars

\* The note operations and direct calls on the operators
NextOperator ==
    \/ NextNotes
    \/ \E k \in DirectOpInputs, h \in HandleInputs : OperatorNoteOff(k, h)

SpecOperator == Init /\ [][NextOperator]_vars

\* ------------------------------------------------- matrix operations
\* A matrix operation applied through the synthesizer: with no matrix yet
\* (this.modulationMatrix is null) the call raises a TypeError.
MatrixCall(name, args, st) ==
    /\ modulationMatrix' = st.m
    /\ modLinks' = st.links
    /\ masterLinks' = st.master
    /\ last' = [op |-> name, args |-> args, created |-> st.created, torn |-> st.torn,
                caught |-> st.caught, threw |-> FALSE]
    /\ UNCHANGED <<routerVars, initVars, appVars, masterVars, operators, envelopes, lfos, activeVoices>>

MatrixCallThrows(name, args) ==
    /\ last' = [op |-> name, args |-> args, created |-> 0, torn |-> 0, caught |-> 0,
                threw |-> TRUE]
    /\ UNCHANGED <<routerVars, initVars, appVars, masterVars, operators, envelopes, lfos, activeVoices,
                   matrixVars>>

Matrix == MatrixState(modulationMatrix, Len0(operators))

\* FMSynthesizer.setModulation(sourceIndex, targetIndex, depth)
SetModulation(s, t, depth) ==
    LET args == [s |-> s, t |-> t, depth |-> depth]
    IN  IF modulationMatrix = NoMatrix THEN MatrixCallThrows("setModulation", args)
        ELSE MatrixCall("setModulation", args, setModulation(Matrix, s, t, depth))

\* FMSynthesizer.setOperatorMasterOut(opIndex, enabled)
SetOperatorMasterOut(opIndex, enabled) ==
    LET args == [opIndex |-> opIndex, enabled |-> enabled]
    IN  IF modulationMatrix = NoMatrix THEN MatrixCallThrows("setOperatorMasterOut", args)
        ELSE MatrixCall("setOperatorMasterOut", args,
                        setMasterOutput(Matrix, [index |-> opIndex], enabled))

\* FMSynthesizer.loadPreset(presetName)
LoadPreset(presetName) ==
    LET args == [name |-> presetName]
    IN  IF modulationMatrix = NoMatrix THEN MatrixCallThrows("loadPreset", args)
        ELSE MatrixCall("loadPreset", args, loadPreset(Matrix, presetName))

\* Direct calls on synth.modulationMatrix
UpdateModulationDepth(s, t, depth) ==
    /\ modulationMatrix # NoMatrix
    /\ MatrixCall("updateModulationDepth", [s |-> s, t |-> t, depth |-> depth],
                  updateModulationDepth(Matrix, s, t, depth))

ClearModulation(s, t) ==
    /\ modulationMatrix # NoMatrix
    /\ MatrixCall("clearModulation", [s |-> s, t |-> t], clearModulation(Matrix, s, t))

ClearAll ==
    /\ modulationMatrix # NoMatrix
    /\ MatrixCall("clearAll", <<>>, clearAll(Matrix))

\* synth.operators[k].dispose(): the operator's nodes are disconnected, which
\* severs every link that leaves its output (to modulation gains, to the
\* master gain); the matrix tables are not told.
OperatorDispose(k) ==
    /\ k \in DOMAIN operators
    /\ modLinks' = [c \in DOMAIN modLinks |-> IF c[1] = k THEN 0 ELSE modLinks[c]]
    /\ masterLinks' = masterLinks \ {k}
    /\ last' = [op |-> "Operator.dispose", k |-> k]
    /\ UNCHANGED <<routerVars, initVars, appVars, masterVars, operators, envelopes, lfos,
                   activeVoices, modulationMatrix>>

\* Pairs and depths passed to the matrix when teardown is exercised
TeardownCellInputs == {<<0, 1>>, <<1, 0>>, <<1, 4>>}

TeardownDepthInputs == {0, 50, 80}

NextTeardown ==
    \/ SynthInit
    \/ \E c \in TeardownCellInputs, d \in TeardownDepthInputs : SetModulation(c[1], c[2], d)
    \/ \E c \in TeardownCellInputs : ClearModulation(c[1], c[2])
    \/ \E k \in {0, 1} : OperatorDispose(k)

SpecTeardown == Init /\ [][NextTeardown]_vars

\* Grids passed to setMatrix: two 4x4, a 2x2 corner, and 5x5 (a row and a column too many)
GridInputs ==
    {Grid(Row(50, 0, 0, 0), Row(0, 0, 0, 0), Row(0, 0, 0, 1), Row(0, 0, 0, 0)),
     Grid(Row(0, 100, 0, 0), Row(0, 0, 0, 0), Row(0, 0, 0, 0), Row(0, 0, 0, 0)),
     [i \in 0 .. 1 |-> [j \in 0 .. 1 |-> IF i = 1 /\ j = 0 THEN 50 ELSE 0]],
     [i \in 0 .. 4 |-> [j \in 0 .. 4 |-> IF i = 4 \/ j = 4 THEN 50 ELSE IF i = j THEN 1 ELSE 0]]}

SetMatrix(matrix) ==
    /\ modulationMatrix # NoMatrix
    /\ MatrixCall("setMatrix", [matrix |-> matrix], setMatrix(Matrix, matrix))

NextMatrix ==
    \/ SynthInit
    \/ \E c \in CellInputs, d \in DepthInputs : SetModulation(c[1], c[2], d)
    \/ \E i \in MasterOutInputs, enabled \in BOOLEAN : SetOperatorMasterOut(i, enabled)
    \/ \E name \in PresetInputs : LoadPreset(name)
    \/ \E c \in CellInputs, d \in DepthInputs : UpdateModulationDepth(c[1], c[2], d)
    \/ \E c \in CellInputs : ClearModulation(c[1], c[2])
    \/ ClearAll
    \/ \E matrix \in GridInputs : SetMatrix(matrix)

SpecMatrix == Init /\ [][NextMatrix]_vars

\* Every name of the preset table, and one that is not in it
AllPresetInputs == (DOMAIN Presets) \cup {"no-such-preset"}

\* The routing operations around loadPreset, with every preset
NextPresets ==
    \/ SynthInit
    \/ \E name \in AllPresetInputs : LoadPreset(name)
    \/ \E c \in CellInputs, d \in DepthInputs : SetModulation(c[1], c[2], d)
    \/ \E i \in MasterOutInputs, enabled \in BOOLEAN : SetOperatorMasterOut(i, enabled)

SpecPresets == Init /\ [][NextPresets]_vars

\* ------------------------------------------------- state snapshots
\* The parts of the synthesizer that setState writes; `mst` is the matrix as
\* the matrix operations take it, NoMatrix while this.modulationMatrix is null.
SynthState ==
    [masterVolume |-> masterVolume, masterTuning |-> masterTuning, glideTime |-> glideTime,
     operators |-> operators, envelopes |-> envelopes, lfos |-> lfos,
     mst |-> IF modulationMatrix = NoMatrix THEN NoMatrix ELSE Matrix]

\* FMSynthesizer.updateMasterParam('volume', value)
UpdateMasterVolume(ss, value) == [ss EXCEPT !.masterVolume = value]

\* The five setter calls setState makes on one operator, in their order; a
\* setter that raises ends them.
ApplyOperatorState(op, opState) ==
    LET o1 == Operator_setWaveform(op, opState, "waveform")
        o2 == Operator_setFrequencyRatio(o1, opState, "frequencyRatio")
        r3 == Operator_setLevel(o2, opState, "level")
        r4 == Operator_setModulationIndex(r3.op, opState, "modulationIndex")
    IN  IF r3.threw THEN r3
        ELSE IF r4.threw THEN r4
        ELSE Ok(Operator_setPhaseInvert(r4.op, opState, "phaseInvert"))

\* state.operators.forEach((opState, i) => ...), from index i on
RECURSIVE OperatorStatesFrom(_, _, _)
OperatorStatesFrom(ops, opStates, i) ==
    IF i >= Len0(opStates) THEN [ops |-> ops, threw |-> FALSE]
    ELSE IF i \notin DOMAIN ops THEN OperatorStatesFrom(ops, opStates, i + 1)
    ELSE LET r == ApplyOperatorState(ops[i], opStates[i])
             ops1 == [ops EXCEPT ![i] = r.op]
         IN  IF r.threw THEN [ops |-> ops1, threw |-> TRUE]
             ELSE OperatorStatesFrom(ops1, opStates, i + 1)

\* state.envelopes.forEach((envState, i) => ...)
EnvelopeStates(envs, envStates) ==
    [i \in DOMAIN envs |->
        IF i \in DOMAIN envStates THEN Envelope_setState(envs[i], envStates[i]) ELSE envs[i]]

\* state.lfos.forEach((lfoState, i) => ...)
LFOStates(ls, lfoStates) ==
    [i \in DOMAIN ls |->
        IF i \in DOMAIN lfoStates THEN LFO_setState(ls[i], lfoStates[i]) ELSE ls[i]]

\* setState: if (state.masterVolume !== undefined) ...
VolumeSection(ss, state) ==
    IF Has(state, "masterVolume") THEN UpdateMasterVolume(ss, state.masterVolume) ELSE ss

\* setState: if (state.masterTuning !== undefined) ...
TuningSection(ss, state) ==
    IF Has(state, "masterTuning") THEN [ss EXCEPT !.masterTuning = state.masterTuning] ELSE ss

\* setState: if (state.glideTime !== undefined) ...
GlideSection(ss, state) ==
    IF Has(state, "glideTime") THEN [ss EXCEPT !.glideTime = state.glideTime] ELSE ss

\* setState: if (state.operators) ...; the result tells whether a setter raised
OperatorsSection(ss, state) ==
    IF Has(state, "operators")
    THEN LET r == OperatorStatesFrom(ss.operators, state.operators, 0)
         IN  [ss |-> [ss EXCEPT !.operators = r.ops], threw |-> r.threw]
    ELSE [ss |-> ss, threw |-> FALSE]

\* setState: if (state.envelopes) ...
EnvelopesSection(ss, state) ==
    IF Has(state, "envelopes")
    THEN [ss EXCEPT !.envelopes = EnvelopeStates(@, state.envelopes)]
    ELSE ss

\* setState: if (state.lfos) ...
LFOsSection(ss, state) ==
    IF Has(state, "lfos") THEN [ss EXCEPT !.lfos = LFOStates(@, state.lfos)] ELSE ss

\* setState: if (state.matrix) this.modulationMatrix.setMatrix(state.matrix)
MatrixSection(ss, state) ==
    IF ~Has(state, "matrix") THEN [ss |-> ss, threw |-> FALSE]
    ELSE IF ss.mst = NoMatrix THEN [ss |-> ss, threw |-> TRUE]
    ELSE [ss |-> [ss EXCEPT !.mst = setMatrix(@, state.matrix)], threw |-> FALSE]

\* The element of a one-element set
Only(S) == CHOOSE x \in S : TRUE

\* FMSynthesizer.setState(state): the sections in the order of the code, each
\* working on the result of the one before it; an exception leaves what was
\* written before it and skips the rest.
Synth_setState(ss, state) ==
    Only({IF r.threw THEN r
          ELSE Only({MatrixSection(l, state) :
                        l \in {LFOsSection(e, state) :
                                  e \in {EnvelopesSection(r.ss, state)}}}) :
            r \in {OperatorsSection(g, state) :
                      g \in {GlideSection(t, state) :
                                t \in {TuningSection(v, state) :
                                          v \in {VolumeSection(ss, state)}}}}})

\* The record getState() builds for one operator; a field the operator holds
\* as undefined is absent.
OperatorState(op) ==
    [f \in {"waveform", "frequencyRatio", "level", "modulationIndex", "phaseInvert"}
            \cap DOMAIN op |-> op[f]]

\* FMSynthesizer.getState(), once initialized
Synth_getState ==
    [masterVolume |-> masterVolume, masterTuning |-> masterTuning, glideTime |-> glideTime,
     operators |-> [i \in DOMAIN operators |-> OperatorState(operators[i])],
     envelopes |-> [i \in DOMAIN envelopes |-> Envelope_getState(envelopes[i])],
     lfos |-> [i \in DOMAIN lfos |-> LFO_getState(lfos[i])],
     matrix |-> getMatrix(modulationMatrix)]

\* An array holding one element
Arr1(x) == [i \in {0} |-> x]

\* Snapshots passed to setState: top-level fields alone, and each section with
\* a full and with a partial record for index 0.
SnapshotInputs ==
    {[masterVolume |-> 500],
     [masterTuning |-> 432, glideTime |-> 100],
     [operators |-> Arr1([waveform |-> "square", frequencyRatio |-> 2 * One, level |-> 300,
                          modulationIndex |-> 5, phaseInvert |-> TRUE])],
     [operators |-> Arr1([waveform |-> "cosine", frequencyRatio |-> 3 * One])],
     [envelopes |-> Arr1([attack |-> 50, sustain |-> 2 * One])],
     [lfos |-> Arr1([rate |-> 20])],
     [lfos |-> Arr1([isRunning |-> TRUE])],
     [matrix |-> Grid(Row(0, 0, 0, 0), Row(0, 0, 40, 0), Row(0, 0, 0, 0), Row(0, 0, 0, 0))]}

\* LFOs passed to startLFO / stopLFO
LFOInputs == {0}

\* FMSynthesizer.setState(state)
SetState(state) ==
    LET r == Synth_setState(SynthState, state)
    IN  /\ masterVolume' = r.ss.masterVolume
        /\ masterTuning' = r.ss.masterTuning
        /\ glideTime' = r.ss.glideTime
        /\ operators' = r.ss.operators
        /\ envelopes' = r.ss.envelopes
        /\ lfos' = r.ss.lfos
        /\ IF r.ss.mst = NoMatrix THEN UNCHANGED matrixVars
           ELSE /\ modulationMatrix' = r.ss.mst.m
                /\ modLinks' = r.ss.mst.links
                /\ masterLinks' = r.ss.mst.master
        /\ last' = [op |-> "setState", state |-> state, threw |-> r.threw]
        /\ UNCHANGED <<routerVars, initVars, appVars, activeVoices>>

\* synth.setState(synth.getState()), once initialized
RestoreState ==
    /\ isInitialized
    /\ \E state \in {Synth_getState} : SetState(state)

\* FMSynthesizer.startLFO(lfoIndex)
StartLFO(lfoIndex) ==
    /\ lfos' = IF lfoIndex \in DOMAIN lfos THEN [lfos EXCEPT ![lfoIndex] = LFO_start(@)]
               ELSE lfos
    /\ last' = [op |-> "startLFO", lfoIndex |-> lfoIndex,
                scheduled |-> lfoIndex \in DOMAIN lfos /\ StartsGate(lfos[lfoIndex]),
                twice |-> last.op = "startLFO" /\ last.lfoIndex = lfoIndex]
    /\ UNCHANGED <<routerVars, initVars, appVars, masterVars, operators, envelopes, activeVoices, matrixVars>>

\* FMSynthesizer.stopLFO(lfoIndex)
StopLFO(lfoIndex) ==
    /\ lfos' = IF lfoIndex \in DOMAIN lfos THEN [lfos EXCEPT ![lfoIndex] = LFO_stop(@)]
               ELSE lfos
    /\ last' = [op |-> "stopLFO", lfoIndex |-> lfoIndex,
                scheduled |-> lfoIndex \in DOMAIN lfos /\ StopsGate(lfos[lfoIndex]),
                twice |-> last.op = "stopLFO" /\ last.lfoIndex = lfoIndex]
    /\ UNCHANGED <<routerVars, initVars, appVars, masterVars, operators, envelopes, activeVoices, matrixVars>>

NextState ==
    \/ SynthInit
    \/ \E state \in SnapshotInputs : SetState(state)
    \/ \E i \in LFOInputs : StartLFO(i)
    \/ \E i \in LFOInputs : StopLFO(i)

SpecState == Init /\ [][NextState]_vars

\* ------------------------------------------------- operator parameters
\* Math.pow(10, e) in fixed point. The exponent e is in ten-thousandths; its
\* fraction is taken digit by digit, digit d of place p contributing the factor
\* 10^(d / 10^p) of the table (factors and mantissa in ten-thousandths).
PowDigit1 == <<10000, 12589, 15849, 19953, 25119, 31623, 39811, 50119, 63096, 79433>>

PowDigit2 == <<10000, 10233, 10471, 10715, 10965, 11220, 11482, 11749, 12023, 12303>>

PowDigit3 == <<10000, 10023, 10046, 10069, 10093, 10116, 10139, 10162, 10186, 10209>>

PowDigit4 == <<10000, 10002, 10005, 10007, 10009, 10012, 10014, 10016, 10018, 10021>>

Times(m, factor) == (m * factor) \div 10000

\* 10^(r / 10000) for 0 <= r < 10000, in ten-thousandths
Mantissa(r) ==
    Times(Times(Times(PowDigit1[(r \div 1000) + 1], PowDigit2[((r \div 100) % 10) + 1]),
                PowDigit3[((r \div 10) % 10) + 1]),
          PowDigit4[(r % 10) + 1])

\* 10^(e / 10000) in thousandths, for -4 <= e / 10000 < 5
MathPow10(e) ==
    IF e >= 10000 THEN Mantissa(e % 10000) * Pow10((e \div 10000) - 1)
    ELSE Mantissa(e % 10000) \div Pow10(1 - (e \div 10000))

\* Math.log10(0.5) and Math.log10(16000), in ten-thousandths
Log10MinFreq == 0 - 3010

Log10MaxFreq == 42041

\* The 'frequency' case of updateOperatorParam:
\* Math.pow(10, minFreq + (maxFreq - minFreq) * value), in thousandths of a Hz
FrequencyOfValue(value) ==
    MathPow10(Log10MinFreq + ((Log10MaxFreq - Log10MinFreq) * value) \div One)

\* Fault: the conversion borrows the guard of frequencyValueToDisplay.
frequencyValueToHz_Guarded(value) ==
    IF value <= 0 THEN 0
    ELSE MathPow10(Log10MinFreq + ((Log10MaxFreq - Log10MinFreq) * value) \div One)

\* UIController.frequencyValueToHz(value), in thousandths of a Hz
frequencyValueToHz(value) ==
    MathPow10(Log10MinFreq + ((Log10MaxFreq - Log10MinFreq) * value) \div One)

\* A call of UIController.frequencyValueToHz(value); it changes nothing.
FrequencyValueToHz(value) ==
    /\ last' = [op |-> "frequencyValueToHz", value |-> value, hz |-> frequencyValueToHz(value)]
    /\ UNCHANGED <<routerVars, initVars, appVars, masterVars, operators, envelopes, lfos,
                   activeVoices, matrixVars>>

\* The switch of updateOperatorParam on one operator; setPan reaches only the
\* panner, which holds no state of the model.
OperatorParam(op, param, value) ==
    CASE param = "frequency" -> Operator_setFrequency(op, Val(FrequencyOfValue(value)), "v").op
      [] param = "ratio"     -> Operator_setFrequencyRatio(op, Val(value * 16), "v")
      [] param = "level"     -> Operator_setLevel(op, Val(value), "v").op
      [] param = "mod-index" -> Operator_setModulationIndex(op, Val(value * 100), "v").op
      [] OTHER -> op

\* Fault: an index that wraps around the array instead of missing it.
Synth_updateOperatorParam_Wraps(ops, opIndex, param, value) ==
    IF ops = <<>> THEN ops
    ELSE [ops EXCEPT ![opIndex % Len0(ops)] = OperatorParam(@, param, value)]

\* FMSynthesizer.updateOperatorParam(opIndex, param, value)
Synth_updateOperatorParam(ops, opIndex, param, value) ==
    IF opIndex \notin DOMAIN ops THEN ops
    ELSE [ops EXCEPT ![opIndex] = OperatorParam(@, param, value)]

UpdateOperatorParam(opIndex, param, value) ==
    /\ operators' = Synth_updateOperatorParam(operators, opIndex, param, value)
    /\ last' = [op |-> "updateOperatorParam", opIndex |-> opIndex, param |-> param,
                value |-> value]
    /\ UNCHANGED <<routerVars, initVars, appVars, masterVars, envelopes, lfos, activeVoices,
                   matrixVars>>

\* FMSynthesizer.updateMasterParam(param, value): the slider value in
\* thousandths, the tuning 415 + value * 51 in Hz, the glide time value * 0.5 s
\* in thousandths of a second.
Synth_updateMasterParam(ms, param, value) ==
    CASE param = "volume" -> [ms EXCEPT !.masterVolume = value]
      [] param = "tuning" -> [ms EXCEPT !.masterTuning = 415 + (value * 51) \div One]
      [] param = "glide"  -> [ms EXCEPT !.glideTime = value \div 2]
      [] OTHER -> ms

UpdateMasterParam(param, value) ==
    LET ms == Synth_updateMasterParam([masterVolume |-> masterVolume,
                                       masterTuning |-> masterTuning,
                                       glideTime |-> glideTime], param, value)
    IN  /\ masterVolume' = ms.masterVolume
        /\ masterTuning' = ms.masterTuning
        /\ glideTime' = ms.glideTime
        /\ last' = [op |-> "updateMasterParam", param |-> param]
        /\ UNCHANGED <<routerVars, initVars, appVars, operators, envelopes, lfos, activeVoices,
                       matrixVars>>

\* ------------------------------------------------- envelope parameters
\* Math.pow(10, Math.log10(0.001) + (Math.log10(10) - Math.log10(0.001)) * value)
\* in thousandths of a second, that is 10^(4 * value) thousandths, for slider
\* values that are multiples of 0.25. A result under one thousandth (value < 0)
\* is written 0: it lies below every time the code compares it with.
SliderTime(value) ==
    IF IsNaN(value) THEN NaN
    ELSE IF value < 0 THEN 0
    ELSE Pow10((4 * value) \div One)

\* The switch of updateADSRParam on one envelope
ADSRParam(env, param, value) ==
    CASE param = "attack"  -> setAttack(env, SliderTime(value))
      [] param = "decay"   -> setDecay(env, SliderTime(value))
      [] param = "sustain" -> setSustain(env, value)
      [] param = "release" -> setRelease(env, SliderTime(value))
      [] OTHER -> env

\* FMSynthesizer.updateADSRParam(envIndex, param, value)
Synth_updateADSRParam(envs, envIndex, param, value) ==
    IF envIndex \notin DOMAIN envs THEN envs
    ELSE [envs EXCEPT ![envIndex] = ADSRParam(@, param, value)]

\* Numbers passed to the envelope setters (thousandths)
NumberInputs == {NaN, 0 - 500, 0, 2000}

\* Slider positions passed to updateADSRParam (thousandths)
SliderInputs == {NaN, 0 - 250, 0, 500, 1250}

ParamInputs == {"attack", "decay", "sustain", "release", "hold"}

\* Envelope indices passed to updateADSRParam: envelope 0 and no envelope
EnvIndexInputs == {0, 9}

\* Objects passed to ADSREnvelope.setState
EnvStateInputs ==
    { <<>>,
      [attack |-> 0, sustain |-> 2000],
      [decay |-> 0 - 500, release |-> 0],
      [attack |-> 2000, decay |-> 2000, sustain |-> 0 - 500, release |-> 2000],
      [sustain |-> NaN] }

EnvelopeFrame ==
    UNCHANGED <<routerVars, initVars, appVars, masterVars, operators, lfos, activeVoices, matrixVars>>

\* synth.envelopes[e].setAttack(value)
SetAttack(e, value) ==
    /\ e \in DOMAIN envelopes
    /\ envelopes' = [envelopes EXCEPT ![e] = setAttack(@, value)]
    /\ last' = [op |-> "setAttack", env |-> e, nan |-> IsNaN(value)]
    /\ EnvelopeFrame

SetDecay(e, value) ==
    /\ e \in DOMAIN envelopes
    /\ envelopes' = [envelopes EXCEPT ![e] = setDecay(@, value)]
    /\ last' = [op |-> "setDecay", env |-> e, nan |-> IsNaN(value)]
    /\ EnvelopeFrame

SetSustain(e, value) ==
    /\ e \in DOMAIN envelopes
    /\ envelopes' = [envelopes EXCEPT ![e] = setSustain(@, value)]
    /\ last' = [op |-> "setSustain", env |-> e, nan |-> IsNaN(value)]
    /\ EnvelopeFrame

SetRelease(e, value) ==
    /\ e \in DOMAIN envelopes
    /\ envelopes' = [envelopes EXCEPT ![e] = setRelease(@, value)]
    /\ last' = [op |-> "setRelease", env |-> e, nan |-> IsNaN(value)]
    /\ EnvelopeFrame

\* synth.envelopes[e].setState(state)
EnvelopeSetState(e, state) ==
    /\ e \in DOMAIN envelopes
    /\ envelopes' = [envelopes EXCEPT ![e] = Envelope_setState(@, state)]
    /\ last' = [op |-> "Envelope.setState", env |-> e,
                nan |-> \E f \in DOMAIN state : IsNaN(state[f])]
    /\ EnvelopeFrame

\* FMSynthesizer.updateADSRParam(envIndex, param, value)
UpdateADSRParam(envIndex, param, value) ==
    /\ envelopes' = Synth_updateADSRParam(envelopes, envIndex, param, value)
    /\ last' = [op |-> "updateADSRParam", env |-> envIndex, nan |-> IsNaN(value)]
    /\ EnvelopeFrame

NextParams ==
    \/ SynthInit
    \/ \E v \in NumberInputs : SetAttack(0, v)
    \/ \E v \in NumberInputs : SetDecay(0, v)
    \/ \E v \in NumberInputs : SetSustain(0, v)
    \/ \E v \in NumberInputs : SetRelease(0, v)
    \/ \E state \in EnvStateInputs : EnvelopeSetState(0, state)
    \/ \E e \in EnvIndexInputs, param \in ParamInputs, v \in SliderInputs :
           UpdateADSRParam(e, param, v)

SpecParams == Init /\ [][NextParams]_vars

\* ------------------------------------------------- LFOModulationRouter
\* The router and the audio links it made, as the router operations take them
RouterState == [r |-> lfoRouter, links |-> lfoLinks]

\* this.connections[l] && this.connections[l][o]
HasCell(table, l, o) == l \in DOMAIN table /\ o \in DOMAIN table[l]

\* The audio links from LFO l through a depth gain into parameter `target` of
\* operator o are counted per key: every createGain() is a node of its own.
LinkKey(l, o, target) == [lfo |-> l, op |-> o, target |-> target]

LinkCount(links, key) == IF Has(links, key) THEN links[key] ELSE 0

\* depthGain.connect(<parameter>): one more link under the key
AddLink(links, key) == Put(links, key, LinkCount(links, key) + 1)

\* node.disconnect(): the stored depth gain loses its link, if it has one
RemoveLink(links, key) ==
    IF LinkCount(links, key) > 1 THEN Put(links, key, links[key] - 1)
    ELSE IF Has(links, key) THEN Drop(links, key) ELSE links

\* LFOModulationRouter.disconnect(lfoIndex, opIndex, target)
Router_disconnect(rs, l, o, target) ==
    IF HasCell(rs.r.connections, l, o) /\ Has(rs.r.connections[l][o], target)
    THEN [r     |-> [rs.r EXCEPT !.connections[l][o] = Drop(@, target)],
          links |-> RemoveLink(rs.links, LinkKey(l, o, target))]
    ELSE rs

\* depthGain.gain.value for a new link (createGain() starts at 1)
DepthGainValue(target, depth) ==
    CASE target = "frequency" -> depth * 100
      [] target = "level"     -> depth \div 2
      [] OTHER -> One

\* lfo.getOutput().connect(depthGain); depthGain.connect(<parameter of op>)
NewLinks(links, l, o, target) ==
    IF target \in {"frequency", "level"} THEN AddLink(links, LinkKey(l, o, target))
    ELSE links

\* The `if (depth > 0)` block of connect, on the state disconnect left. With no
\* row for the LFO in the table (setOperators ran while the router had no
\* LFOs), this.connections[lfoIndex][opIndex] raises a TypeError, after the
\* depth gain has been wired.
ConnectDepth(rs, l, o, target, depth) ==
    IF depth > 0
    THEN IF HasCell(rs.r.connections, l, o)
         THEN [r     |-> [rs.r EXCEPT !.connections[l][o] =
                                         Put(@, target, [gain |-> DepthGainValue(target, depth)]),
                                      !.depthNodes[l][o] = Put(@, target, depth)],
               links |-> NewLinks(rs.links, l, o, target)]
         ELSE [r |-> rs.r, links |-> NewLinks(rs.links, l, o, target), threw |-> TRUE]
    ELSE rs

\* Fault: connect that does not tear the key's previous link down first.
Router_connect_NoTeardown(rs, nl, no, l, o, target, depth) ==
    IF l < 0 \/ l >= nl \/ o < 0 \/ o >= no THEN rs
    ELSE ConnectDepth(rs, l, o, target, depth)

\* LFOModulationRouter.connect(lfoIndex, opIndex, target, depth), the router
\* holding nl LFOs and no operators
Router_connect(rs, nl, no, l, o, target, depth) ==
    IF l < 0 \/ l >= nl \/ o < 0 \/ o >= no THEN rs
    ELSE ConnectDepth(Router_disconnect(rs, l, o, target), l, o, target, depth)

\* maxDepth of updateDepth
MaxDepthGain(target, depth) == IF target = "frequency" THEN depth * 100 ELSE depth \div 2

\* LFOModulationRouter.updateDepth(lfoIndex, opIndex, target, depth)
Router_updateDepth(rs, nl, no, l, o, target, depth) ==
    IF HasCell(rs.r.connections, l, o) /\ Has(rs.r.connections[l][o], target)
    THEN [rs EXCEPT !.r.connections[l][o][target].gain = MaxDepthGain(target, depth),
                    !.r.depthNodes[l][o] = Put(@, target, depth)]
    ELSE Router_connect(rs, nl, no, l, o, target, depth)

\* LFOModulationRouter.isConnected(lfoIndex, opIndex, target)
Router_isConnected(r, l, o, target) ==
    HasCell(r.connections, l, o) /\ Has(r.connections[l][o], target)

\* LFOModulationRouter.getDepth(lfoIndex, opIndex, target): depth || 0
Router_getDepth(r, l, o, target) ==
    IF HasCell(r.depthNodes, l, o) /\ Has(r.depthNodes[l][o], target)
    THEN r.depthNodes[l][o][target] ELSE 0

\* The two disconnects dispose() makes for cell (i, j)
DisposeCell(rs, i, j) == Router_disconnect(Router_disconnect(rs, i, j, "frequency"), i, j, "level")

\* The loops of dispose(), cell after cell: i over connections, j over
\* connections[i]
RECURSIVE DisposeFrom(_, _, _)
DisposeFrom(rs, i, j) ==
    IF i >= Len0(rs.r.connections) THEN rs
    ELSE IF j >= Len0(rs.r.connections[i]) THEN DisposeFrom(rs, i + 1, 0)
    ELSE DisposeFrom(DisposeCell(rs, i, j), i, j + 1)

\* LFOModulationRouter.dispose()
Router_dispose(rs) == DisposeFrom(rs, 0, 0)

\* LFO and operator indices, targets and depths passed to the router
RouterLFOInputs == {0, 4}

RouterOpInputs == {1}

RouterTargetInputs == {"level"}

RouterDepthInputs == {0, 500}

RouterFrame ==
    UNCHANGED <<initVars, appVars, masterVars, operators, envelopes, lfos, activeVoices,
                matrixVars>>

\* synth.lfoRouter.connect(l, o, target, depth); the router exists once init() ran
RouterConnect(l, o, target, depth) ==
    /\ lfoRouter # NoRouter
    /\ LinkCount(lfoLinks, LinkKey(l, o, target)) < MaxLinks
    /\ LET rs == Router_connect(RouterState, Len0(lfos), Len0(operators), l, o, target, depth)
       IN  /\ lfoRouter' = rs.r
           /\ lfoLinks' = rs.links
    /\ last' = [op |-> "router.connect", lfoIndex |-> l, opIndex |-> o, target |-> target,
                depth |-> depth,
                replaced |-> Router_isConnected(lfoRouter, l, o, target)
                             /\ Router_getDepth(lfoRouter, l, o, target) # depth,
                threw |-> Has(Router_connect(RouterState, Len0(lfos), Len0(operators), l, o,
                                             target, depth), "threw")]
    /\ RouterFrame

\* synth.lfoRouter.disconnect(l, o, target)
RouterDisconnect(l, o, target) ==
    /\ lfoRouter # NoRouter
    /\ LET rs == Router_disconnect(RouterState, l, o, target)
       IN  /\ lfoRouter' = rs.r
           /\ lfoLinks' = rs.links
    /\ last' = [op |-> "router.disconnect", lfoIndex |-> l, opIndex |-> o, target |-> target]
    /\ RouterFrame

\* synth.lfoRouter.updateDepth(l, o, target, depth)
RouterUpdateDepth(l, o, target, depth) ==
    /\ lfoRouter # NoRouter
    /\ LinkCount(lfoLinks, LinkKey(l, o, target)) < MaxLinks
    /\ LET rs == Router_updateDepth(RouterState, Len0(lfos), Len0(operators), l, o, target,
                                    depth)
       IN  /\ lfoRouter' = rs.r
           /\ lfoLinks' = rs.links
    /\ last' = [op |-> "router.updateDepth", lfoIndex |-> l, opIndex |-> o, target |-> target,
                depth |-> depth,
                threw |-> Has(Router_updateDepth(RouterState, Len0(lfos), Len0(operators), l, o,
                                                 target, depth), "threw")]
    /\ RouterFrame

\* A router set up by hand in place of the synthesizer's:
\* new LFOModulationRouter(ctx), then setLFOs(synth.lfos) and
\* setOperators(synth.operators) in either order. Only setOperators builds the
\* tables, from the LFOs the router holds at that moment.
RouterSetUp(lfosFirst) ==
    /\ isInitialized
    /\ lfoRouter' = NewRouter(IF lfosFirst THEN Len0(lfos) ELSE 0, Len0(operators))
    /\ last' = [op |-> "router.new", lfosFirst |-> lfosFirst]
    /\ UNCHANGED lfoLinks
    /\ RouterFrame

\* FMSynthesizer.getState(): this.modulationMatrix.getMatrix() raises a
\* TypeError while the matrix is null.
GetState ==
    /\ last' = [op |-> "getState", threw |-> modulationMatrix = NoMatrix]
    /\ UNCHANGED <<routerVars, initVars, appVars, masterVars, operators, envelopes, lfos, activeVoices,
                   matrixVars>>

\* target.match(/op(\d+)-(freq|level)/) of setLFOTarget, for the target strings
\* the model passes: the match with its two groups, <<>> for no match.
MatchTarget(target) ==
    CASE target = "op1-freq"  -> [op |-> 1, param |-> "freq"]
      [] target = "op2-level" -> [op |-> 2, param |-> "level"]
      [] target = "op2-freq"  -> [op |-> 2, param |-> "freq"]
      [] target = "op9-level" -> [op |-> 9, param |-> "level"]
      [] OTHER -> <<>>

\* The loop of setLFOTarget that clears the router's connections of one LFO:
\* disconnect(lfoIndex, i, 'frequency') and disconnect(lfoIndex, i, 'level')
\* for i = 0 .. 3
RECURSIVE ClearLFOFrom(_, _, _)
ClearLFOFrom(rs, l, i) ==
    IF i >= 4 THEN rs ELSE ClearLFOFrom(DisposeCell(rs, l, i), l, i + 1)

\* FMSynthesizer.setLFOTarget(lfoIndex, target) on ss = [lfos, rs]
Synth_setLFOTarget(ss, ops, lfoIndex, target) ==
    LET match == MatchTarget(target)
        opIndex == match.op - 1
        param == IF match.param = "freq" THEN "frequency" ELSE "level"
    IN  IF match = <<>> THEN ss
        ELSE IF lfoIndex \notin DOMAIN ss.lfos \/ opIndex \notin DOMAIN ops THEN ss
        ELSE [lfos |-> [ss.lfos EXCEPT ![lfoIndex] = LFO_connect(@, <<opIndex, param>>)],
              rs   |-> ClearLFOFrom(ss.rs, lfoIndex, 0)]

SetLFOTarget(lfoIndex, target) ==
    /\ LET ss == Synth_setLFOTarget([lfos |-> lfos, rs |-> RouterState], operators, lfoIndex,
                                    target)
       IN  /\ lfos' = ss.lfos
           /\ lfoRouter' = ss.rs.r
           /\ lfoLinks' = ss.rs.links
    /\ last' = [op |-> "setLFOTarget", lfoIndex |-> lfoIndex, target |-> target]
    /\ UNCHANGED <<initVars, appVars, masterVars, operators, envelopes, activeVoices, matrixVars>>

\* synth.lfoRouter.dispose()
RouterDispose ==
    /\ lfoRouter # NoRouter
    /\ LET rs == Router_dispose(RouterState)
       IN  /\ lfoRouter' = rs.r
           /\ lfoLinks' = rs.links
    /\ last' = [op |-> "router.dispose"]
    /\ RouterFrame

\* Keys and depths passed to the router when it is exercised on its own
KeyLFOInputs == {0, 4}

KeyOpInputs == {1}

KindInputs == {"frequency", "level"}

KeyDepthInputs == {0 - 500, 0, 500}

NextRouter ==
    \/ SynthInit
    \/ \E l \in KeyLFOInputs, o \in KeyOpInputs, t \in KindInputs, d \in KeyDepthInputs :
           RouterConnect(l, o, t, d)
    \/ \E l \in KeyLFOInputs, o \in KeyOpInputs, t \in KindInputs :
           RouterDisconnect(l, o, t)
    \/ \E l \in KeyLFOInputs, o \in KeyOpInputs, t \in KindInputs, d \in KeyDepthInputs :
           RouterUpdateDepth(l, o, t, d)
    \/ RouterDispose

SpecRouter == Init /\ [][NextRouter]_vars

\* The switch of updateLFOParam on one LFO (rates in 0.1 Hz: 0.1 + value * 19.9)
LFOParam(lfo, param, value) ==
    CASE param = "rate"  -> LFO_setRate(lfo, 1 + (199 * value) \div One)
      [] param = "depth" -> LFO_setDepth(lfo, value)
      [] OTHER -> lfo

\* Slider positions passed to updateLFOParam
LFOSliderInputs == {1000}

\* FMSynthesizer.updateLFOParam(lfoIndex, param, value)
UpdateLFOParam(lfoIndex, param, value) ==
    /\ lfos' = IF lfoIndex \in DOMAIN lfos
               THEN [lfos EXCEPT ![lfoIndex] = LFOParam(@, param, value)]
               ELSE lfos
    /\ last' = [op |-> "updateLFOParam", lfoIndex |-> lfoIndex]
    /\ UNCHANGED <<routerVars, initVars, appVars, masterVars, operators, envelopes, activeVoices,
                   matrixVars>>

\* The LFOs and their router next to the note operations
NextLFO ==
    \/ SynthInit
    \/ \E args \in NoteOnArgs : NoteOn(args)
    \/ \E midi \in Notes : NoteOff(midi)
    \/ AllNotesOff
    \/ \E i \in RouterLFOInputs : StartLFO(i)
    \/ \E i \in RouterLFOInputs : StopLFO(i)
    \/ \E i \in RouterLFOInputs, param \in {"rate", "depth"}, v \in LFOSliderInputs :
           UpdateLFOParam(i, param, v)
    \/ \E l \in RouterLFOInputs, o \in RouterOpInputs, t \in RouterTargetInputs,
          d \in RouterDepthInputs : RouterConnect(l, o, t, d)
    \/ \E l \in RouterLFOInputs, o \in RouterOpInputs, t \in RouterTargetInputs :
           RouterDisconnect(l, o, t)
    \/ \E l \in RouterLFOInputs, o \in RouterOpInputs, t \in RouterTargetInputs,
          d \in RouterDepthInputs : RouterUpdateDepth(l, o, t, d)

SpecLFO == Init /\ [][NextLFO]_vars

\* ------------------------------------------------- indices out of range
\* Operator, envelope and LFO indices: one before the arrays, one inside, one past
IndexInputs == {0 - 1, 1, 4}

OperatorParamInputs == {"frequency", "ratio", "pan"}

NextIndices ==
    \/ SynthInit
    \/ \E s, t \in IndexInputs : SetModulation(s, t, 50)
    \/ \E s, t \in IndexInputs : UpdateModulationDepth(s, t, 80)
    \/ \E s, t \in IndexInputs : ClearModulation(s, t)
    \/ \E i \in IndexInputs : SetOperatorMasterOut(i, TRUE)
    \/ \E l, o \in IndexInputs : RouterConnect(l, o, "level", 500)
    \/ \E l, o \in IndexInputs : RouterUpdateDepth(l, o, "level", 1000)
    \/ \E l, o \in IndexInputs : RouterDisconnect(l, o, "level")
    \/ \E i \in IndexInputs, param \in OperatorParamInputs : UpdateOperatorParam(i, param, 500)
    \/ \E i \in IndexInputs : UpdateLFOParam(i, "rate", 1000)
    \/ \E i \in IndexInputs : UpdateADSRParam(i, "sustain", 250)
    \/ \E k, e \in IndexInputs : AssignEnvelopeToOperator(k, e)
    \/ \E i \in IndexInputs : StartLFO(i)
    \/ \E i \in IndexInputs : StopLFO(i)

SpecIndices == Init /\ [][NextIndices]_vars

\* ------------------------------------------------ stopwatch and timer page
\* The handlers act on a record pg: the stopwatch and timer objects of `state`,
\* the animation-frame callbacks the browser holds, the stored records, and
\* now, the value Date.now() returns while the handler runs.
Page ==
    [stopwatch |-> stopwatch, timer |-> timer, frames |-> frames,
     timeRecords |-> timeRecords, now |-> clock]

\* formatTime(ms): hours, minutes, seconds and hundredths, each printed with
\* two digits
formatTime(ms) ==
    LET totalSeconds == ms \div 1000
    IN  <<totalSeconds \div 3600, (totalSeconds % 3600) \div 60, totalSeconds % 60,
          (ms % 1000) \div 10>>

\* formatTimerTime(ms): hours, minutes and seconds of Math.max(0, ms)
formatTimerTime(ms) ==
    LET totalSeconds == Max(0, ms) \div 1000
    IN  <<totalSeconds \div 3600, (totalSeconds % 3600) \div 60, totalSeconds % 60>>

\* saveRecord(type, data): the record goes first, and the list is cut to
\* RecordLimit entries; date is the instant of id, printed
saveRecord(pg, type, data) ==
    LET head == [id |-> pg.now, type |-> type, date |-> pg.now]
        record == [k \in DOMAIN head \cup DOMAIN data |->
                      IF k \in DOMAIN data THEN data[k] ELSE head[k]]
        records == <<record>> \o pg.timeRecords
    IN  [pg EXCEPT !.timeRecords = SubSeq(records, 1, Min(RecordLimit, Len(records)))]

\* requestAnimationFrame(callback); the id it returns is pg.frames.next
requestAnimationFrame(pg, callback) ==
    [pg EXCEPT !.frames = [next |-> @.next + 1,
                           pending |-> @.pending \cup {[id |-> @.next, callback |-> callback]}]]

\* Fault: cancelAnimationFrame that leaves the callback with the browser.
cancelAnimationFrame_Ignored(pg, id) == pg

\* cancelAnimationFrame(id)
cancelAnimationFrame(pg, id) ==
    [pg EXCEPT !.frames.pending = {f \in @ : f.id # id}]

\* updateStopwatch()
updateStopwatch(pg) ==
    LET p1 == [pg EXCEPT !.stopwatch.elapsedTime = pg.now - pg.stopwatch.startTime]
    IN  IF pg.stopwatch.isRunning
        THEN [requestAnimationFrame(p1, "updateStopwatch")
                 EXCEPT !.stopwatch.animationId = pg.frames.next]
        ELSE p1

\* startStopwatch(): pauses a running stopwatch, starts or resumes a stopped one
startStopwatch(pg) ==
    IF pg.stopwatch.isRunning
    THEN cancelAnimationFrame(
             [pg EXCEPT !.stopwatch.isRunning = FALSE,
                        !.stopwatch.elapsedTime = pg.now - pg.stopwatch.startTime],
             pg.stopwatch.animationId)
    ELSE updateStopwatch([pg EXCEPT !.stopwatch.isRunning = TRUE,
                                    !.stopwatch.startTime = pg.now - pg.stopwatch.elapsedTime])

\* The laps as resetStopwatch() saves them
SavedLaps(lapTimes) ==
    [i \in DOMAIN lapTimes |->
        [number |-> lapTimes[i].number, time |-> formatTime(lapTimes[i].total),
         split |-> formatTime(lapTimes[i].split)]]

\* resetStopwatch()
resetStopwatch(pg) ==
    LET saved == IF pg.stopwatch.elapsedTime > 0
                 THEN saveRecord(pg, "stopwatch",
                                 [totalTime |-> formatTime(pg.stopwatch.elapsedTime),
                                  laps |-> SavedLaps(pg.stopwatch.lapTimes)])
                 ELSE pg
    IN  cancelAnimationFrame(
            [saved EXCEPT !.stopwatch.isRunning = FALSE, !.stopwatch.startTime = 0,
                          !.stopwatch.elapsedTime = 0, !.stopwatch.lapTimes = <<>>],
            pg.stopwatch.animationId)

\* recordLap()
recordLap(pg) ==
    LET laps == pg.stopwatch.lapTimes
        currentTotal == pg.now - pg.stopwatch.startTime
        prevTotal == IF Len(laps) > 0 THEN laps[Len(laps)].total ELSE 0
    IN  [pg EXCEPT !.stopwatch.lapTimes =
            Append(@, [number |-> Len(laps) + 1, total |-> currentTotal,
                       split |-> currentTotal - prevTotal])]

\* timerComplete()
timerComplete(pg) ==
    saveRecord(cancelAnimationFrame([pg EXCEPT !.timer.isRunning = FALSE],
                                    pg.timer.animationId),
               "timer",
               [duration |-> formatTimerTime(pg.timer.totalDuration), completedAt |-> pg.now])

\* updateTimer()
updateTimer(pg) ==
    LET remaining == Max(0, pg.timer.endTime - pg.now)
        p1 == [pg EXCEPT !.timer.remainingTime = remaining]
    IN  IF remaining > 0 /\ pg.timer.isRunning
        THEN [requestAnimationFrame(p1, "updateTimer")
                 EXCEPT !.timer.animationId = pg.frames.next]
        ELSE IF remaining <= 0 THEN timerComplete(p1)
        ELSE p1

\* The duration the three input fields hold, in ms; a field parseInt cannot
\* read counts as 0
ConfiguredDuration(input) ==
    (input.hours * 3600 + input.minutes * 60 + input.seconds) * 1000

\* startTimer(), with the input fields holding `input`
startTimer(pg, input) ==
    IF pg.timer.isRunning THEN pg
    ELSE LET p1 == IF ~pg.timer.isPaused
                   THEN [pg EXCEPT !.timer.totalDuration = ConfiguredDuration(input)]
                   ELSE pg
         IN  IF ~pg.timer.isPaused /\ ConfiguredDuration(input) = 0 THEN p1
             ELSE updateTimer([p1 EXCEPT !.timer.isRunning = TRUE,
                                         !.timer.isPaused = FALSE,
                                         !.timer.endTime = pg.now + pg.timer.remainingTime])

\* pauseTimer()
pauseTimer(pg) ==
    IF ~pg.timer.isRunning THEN pg
    ELSE cancelAnimationFrame(
             [pg EXCEPT !.timer.isRunning = FALSE, !.timer.isPaused = TRUE,
                        !.timer.remainingTime = pg.timer.endTime - pg.now],
             pg.timer.animationId)

\* resetTimer()
resetTimer(pg) ==
    cancelAnimationFrame(
        [pg EXCEPT !.timer.isRunning = FALSE, !.timer.isPaused = FALSE,
                   !.timer.remainingTime = 0, !.timer.totalDuration = 0],
        pg.timer.animationId)

\* Everything the synthesizer holds
synthVars == <<initVars, masterVars, noteVars, lfos, matrixVars, routerVars>>

\* A handler of the page ran: pg is what it left, run the stopwatch's running
\* time so far
PageCall(pg, run, lst) ==
    /\ stopwatch' = pg.stopwatch
    /\ timer' = pg.timer
    /\ frames' = pg.frames
    /\ timeRecords' = pg.timeRecords
    /\ runTime' = run
    /\ last' = lst
    /\ UNCHANGED <<clock, synthVars>>

\* Date.now() advances by d ms
Tick(d) ==
    /\ clock + d <= PageLoad + MaxSeconds * 1000
    /\ clock' = clock + d
    /\ runTime' = IF stopwatch.isRunning THEN runTime + d ELSE runTime
    /\ last' = [op |-> "tick", d |-> d]
    /\ UNCHANGED <<stopwatch, timer, frames, timeRecords, synthVars>>

\* A click on the start / pause button of the stopwatch
StartStopwatch ==
    /\ frames.next <= MaxFrames
    /\ PageCall(startStopwatch(Page), runTime, [op |-> "startStopwatch"])

\* A click on the reset button of the stopwatch
ResetStopwatch ==
    /\ Len(timeRecords) < MaxRecords
    /\ PageCall(resetStopwatch(Page), 0, [op |-> "resetStopwatch"])

\* A click on the lap button
RecordLap ==
    /\ Len(stopwatch.lapTimes) < MaxLaps
    /\ PageCall(recordLap(Page), runTime, [op |-> "recordLap"])

\* The browser runs the animation-frame callback f and forgets it
RunFrame(f) ==
    LET pg == [Page EXCEPT !.frames.pending = @ \ {f}]
    IN  /\ frames.next <= MaxFrames
        /\ Len(timeRecords) < MaxRecords
        /\ PageCall(IF f.callback = "updateStopwatch" THEN updateStopwatch(pg)
                    ELSE updateTimer(pg),
                    runTime, [op |-> f.callback])

\* An animation frame of the stopwatch
StopwatchFrame == \E f \in frames.pending : f.callback = "updateStopwatch" /\ RunFrame(f)

\* An animation frame of the timer
TimerFrame == \E f \in frames.pending : f.callback = "updateTimer" /\ RunFrame(f)

\* What the duration fields hold when the timer's start button is clicked
TimerInputs ==
    {[hours |-> 0, minutes |-> 0, seconds |-> 0],
     [hours |-> 0, minutes |-> 0, seconds |-> 1],
     [hours |-> 0, minutes |-> 0, seconds |-> 2]}

\* A click on the start button of the timer
StartTimer(input) ==
    /\ frames.next <= MaxFrames
    /\ Len(timeRecords) < MaxRecords
    /\ PageCall(startTimer(Page, input), runTime,
                [op |-> "startTimer", input |-> input,
                 fresh |-> ~timer.isRunning /\ ~timer.isPaused])

\* A click on the pause button of the timer
PauseTimer == PageCall(pauseTimer(Page), runTime, [op |-> "pauseTimer"])

\* A click on the reset button of the timer
ResetTimer == PageCall(resetTimer(Page), runTime, [op |-> "resetTimer"])

\* Date.now() advances by these steps
TickInputs == {500, 1000}

NextStopwatch ==
    \/ \E d \in TickInputs : Tick(d)
    \/ StartStopwatch
    \/ ResetStopwatch
    \/ StopwatchFrame

SpecStopwatch == Init /\ [][NextStopwatch]_vars

NextTimer ==
    \/ \E d \in TickInputs : Tick(d)
    \/ \E input \in TimerInputs : StartTimer(input)
    \/ PauseTimer
    \/ ResetTimer

SpecTimer == Init /\ [][NextTimer]_vars

\* Every operation of the stopwatch and timer page
NextPage ==
    \/ NextStopwatch
    \/ NextTimer
    \/ RecordLap
    \/ TimerFrame

\* Every operation of the synthesizer and of the page
Next ==
    \/ NextIndices
    \/ NextParams
    \/ NextLFO
    \/ NextRouter
    \/ \E k \in {0, 1} : OperatorDispose(k)
    \/ NextNotes
    \/ \E k \in AssignOpInputs, e \in AssignEnvInputs : AssignEnvelopeToOperator(k, e)
    \/ \E k \in DirectOpInputs, h \in HandleInputs : OperatorNoteOff(k, h)
    \/ \E c \in CellInputs, d \in DepthInputs : SetModulation(c[1], c[2], d)
    \/ \E i \in MasterOutInputs, enabled \in BOOLEAN : SetOperatorMasterOut(i, enabled)
    \/ \E name \in PresetInputs : LoadPreset(name)
    \/ \E c \in CellInputs, d \in DepthInputs : UpdateModulationDepth(c[1], c[2], d)
    \/ \E c \in CellInputs : ClearModulation(c[1], c[2])
    \/ ClearAll
    \/ \E matrix \in GridInputs : SetMatrix(matrix)
    \/ \E state \in SnapshotInputs : SetState(state)
    \/ \E i \in LFOInputs : StartLFO(i)
    \/ \E i \in LFOInputs : StopLFO(i)
    \/ \E created \in BOOLEAN : InitCall(created)
    \/ \E resumed \in BOOLEAN : InitResume(resumed)
    \/ \E value \in {0, One} : UpdateMasterParam("tuning", value)
    \/ \E k \in DirectOpInputs : OperatorSetEnvelopeNull(k)
    \/ \E k \in DirectOpInputs : OperatorNoteOn(k, 220 * One, DefaultVelocity)
    \/ \E value \in {0, One} : FrequencyValueToHz(value)
    \/ \E lfosFirst \in BOOLEAN : RouterSetUp(lfosFirst)
    \/ GetState
    \/ \E k \in {0, 1}, velocity \in {500, 1000} : EnvelopeTrigger(k, velocity)
    \/ \E k \in {0, 1} : EnvelopeRelease(k)
    \/ \E k \in {0, 1} : EnvelopeReset(k)
    \/ \E l \in {0, 1}, target \in {"op1-freq", "op2-level", "none"} : SetLFOTarget(l, target)
    \/ RestoreState
    \/ NextPage

Spec == Init /\ [][Next]_vars

\* ================================================================ claims
Sounding == DOMAIN activeVoices

Handle(n, k) == activeVoices[n].operatorVoices[k]

\* Every sounding note is registered under its own number with exactly one
\* voice handle in every operator: each operator holds as many handles as there
\* are sounding notes, and no two notes share a handle.
OneVoicePerNote ==
    /\ \A n \in Sounding :
         /\ activeVoices[n].midi = n
         /\ \A k \in DOMAIN operators :
              /\ Has(activeVoices[n].operatorVoices, k)
              /\ Handle(n, k) \in operators[k].voices
    /\ \A k \in DOMAIN operators :
         /\ Cardinality(operators[k].voices) = Cardinality(Sounding)
         /\ \A n1, n2 \in Sounding : n1 # n2 => Handle(n1, k) # Handle(n2, k)

\* C1 (as claimed): a noteOn(n) on a sounding note n completes: it releases
\* the note's old handle in every operator and triggers again, leaving n
\* registered once with one fresh handle per operator.
C1_RetriggerOnce ==
    [][(last'.op = "noteOn" /\ last'.retrigger) =>
         LET n == last'.args.midi
         IN  /\ ~last'.threw
             /\ OneVoicePerNote'
             /\ n \in DOMAIN activeVoices'
             /\ \A k \in DOMAIN operators :
                    /\ Handle(n, k) \notin operators'[k].voices
                    /\ activeVoices'[n].operatorVoices[k] \notin operators[k].voices]_vars

\* C7 (as claimed): the attack ramp of a trigger starts from the value the
\* envelope gain had, live, when noteOn was called.
C7_TriggerFromLiveValue ==
    [][(last'.op = "noteOn") =>
         \A k \in DOMAIN operators :
            operators'[k].envelopeGain.from = operators[k].envelopeGain.value]_vars

\* C2 (as claimed): right after noteOff of a sounding note, every operator's
\* envelope gain is heading to 0, its pending automation being at most one
\* release ramp.
C2_NoteOffReleasesAll ==
    (last.op = "noteOff" /\ last.sounding) =>
        \A k \in DOMAIN operators :
            /\ FinalValue(operators[k].envelopeGain) = 0
            /\ Len(operators[k].envelopeGain.sched) <= 1

\* C6 (as claimed): an envelope is the envelope of at most one operator.
C6_EnvelopeExclusive ==
    \A e \in DOMAIN envelopes :
        Cardinality({k \in DOMAIN operators :
                        Has(operators[k], "envelope") /\ operators[k].envelope = e}) <= 1

\* C8 (as claimed): Operator.noteOff with a handle the operator does not hold
\* returns without an error and changes neither the operator (voices, envelope
\* gain) nor any envelope.
C8_UnknownHandleNoOp ==
    [][(last'.op = "Operator.noteOff" /\ ~last'.known) =>
         (~last'.threw /\ operators' = operators /\ envelopes' = envelopes)]_vars

\* C3 (as claimed): on an initialized engine, setOperatorMasterOut(i, true)
\* for a valid i leaves operator i wired to the master gain and recorded as
\* enabled, and setOperatorMasterOut(i, false) leaves it unwired and recorded
\* as disabled.
C3_MasterOutputToggle ==
    (last.op = "setOperatorMasterOut" /\ ~last.threw /\ last.args.opIndex \in OpIdx) =>
        LET i == last.args.opIndex
        IN  IF last.args.enabled
            THEN i \in masterLinks /\ modulationMatrix.masterOutputs[i] # "null"
            ELSE i \notin masterLinks /\ modulationMatrix.masterOutputs[i] = "null"

\* C5 (as claimed): loadPreset with an unknown name leaves every connection,
\* every link and the master-output vector as they were.
C5_UnknownPresetNoOp ==
    [][(last'.op = "loadPreset" /\ ~last'.threw /\ last'.args.name \notin DOMAIN Presets) =>
         (modulationMatrix' = modulationMatrix /\ modLinks' = modLinks
          /\ masterLinks' = masterLinks)]_vars

\* C9 (as claimed): a pair has a connection exactly when its depth is > 0.
C9_ConnectedIffPositive ==
    modulationMatrix # NoMatrix =>
        \A i, j \in MatIdx :
            hasModulation(modulationMatrix, i, j) <=> getModulationDepth(modulationMatrix, i, j) > 0

\* C10: setModulation(s, t, d) on valid indices leaves the pair connected with
\* depth d and exactly one link when d > 0, absent with depth 0 and no link
\* when d <= 0, and leaves every other cell and link as it was.
C10_SetModulation ==
    [][(last'.op = "setModulation" /\ ~last'.threw
        /\ last'.args.s \in MatIdx /\ last'.args.t \in MatIdx) =>
         LET s == last'.args.s
             t == last'.args.t
             d == last'.args.depth
         IN  /\ d > 0 => /\ hasModulation(modulationMatrix', s, t)
                         /\ getMatrix(modulationMatrix')[s][t] = d
                         /\ modLinks'[<<s, t>>] = 1
             /\ d <= 0 => /\ ~hasModulation(modulationMatrix', s, t)
                          /\ getMatrix(modulationMatrix')[s][t] = 0
                          /\ modLinks'[<<s, t>>] = 0
             /\ \A i, j \in MatIdx :
                    <<i, j>> # <<s, t>> =>
                        /\ modulationMatrix'.connections[i][j] = modulationMatrix.connections[i][j]
                        /\ modLinks'[<<i, j>>] = modLinks[<<i, j>>]
             /\ modulationMatrix'.masterOutputs = modulationMatrix.masterOutputs]_vars

\* C10 witness: a self-feedback pair was set again with another positive depth,
\* its previous link torn down and a new one created.
C10_Witness ==
    /\ last.op = "setModulation"
    /\ last.args.s = last.args.t
    /\ last.args.depth = 1
    /\ last.torn = 1
    /\ last.created = 1
    /\ getMatrix(modulationMatrix)[last.args.s][last.args.t] = 1

\* The fields of the per-operator, per-envelope and per-LFO records of a snapshot
OperatorStateFields == {"waveform", "frequencyRatio", "level", "modulationIndex", "phaseInvert"}

EnvelopeStateFields == {"attack", "decay", "sustain", "release"}

LFOStateFields == {"waveform", "rate", "depth", "isRunning"}

\* In the section `arr` of the snapshot, every element of `before` the section
\* does not name, and every field its record does not name, is as before.
AbsentFieldsKept(before, after, arr, fields) ==
    \A i \in DOMAIN before :
        IF i \in DOMAIN arr
        THEN \A f \in fields : ~Has(arr[i], f) => SameField(after[i], before[i], f)
        ELSE after[i] = before[i]

\* C4 (as claimed): setState(snapshot) leaves every field absent from the
\* snapshot -- at the top level and inside an operator, envelope or LFO record
\* -- with the value it had before the call.
C4_AbsentFieldsUntouched ==
    [][(last'.op = "setState") =>
         LET s == last'.state
         IN  /\ ~Has(s, "masterVolume") => masterVolume' = masterVolume
             /\ ~Has(s, "masterTuning") => masterTuning' = masterTuning
             /\ ~Has(s, "glideTime") => glideTime' = glideTime
             /\ IF Has(s, "operators")
                THEN AbsentFieldsKept(operators, operators', s.operators, OperatorStateFields)
                ELSE operators' = operators
             /\ IF Has(s, "envelopes")
                THEN AbsentFieldsKept(envelopes, envelopes', s.envelopes, EnvelopeStateFields)
                ELSE envelopes' = envelopes
             /\ IF Has(s, "lfos")
                THEN AbsentFieldsKept(lfos, lfos', s.lfos, LFOStateFields)
                ELSE lfos' = lfos
             /\ ~Has(s, "matrix") => UNCHANGED matrixVars]_vars

\* C11: loadPreset of a known preset leaves getMatrix() equal to the preset's
\* grid, with one link exactly where the grid is non-zero, whatever the routing
\* was before.
C11_PresetGrid ==
    [][(last'.op = "loadPreset" /\ ~last'.threw /\ last'.args.name \in DOMAIN Presets) =>
         LET grid == Presets[last'.args.name].matrix
         IN  /\ getMatrix(modulationMatrix') = grid
             /\ \A i, j \in MatIdx :
                    /\ hasModulation(modulationMatrix', i, j) <=> grid[i][j] > 0
                    /\ modLinks'[<<i, j>>] = IF grid[i][j] > 0 THEN 1 ELSE 0]_vars

\* C11 witness: basic-fm was loaded over a routing that had connections the
\* preset does not have; they were torn down and the preset's two were created.
C11_Witness ==
    /\ last.op = "loadPreset"
    /\ last.args.name = "basic-fm"
    /\ last.torn >= 2
    /\ last.created = 2
    /\ getMatrix(modulationMatrix) =
           Grid(Row(0, 0, 0, 0), Row(50, 0, 0, 0), Row(0, 0, 0, 0), Row(0, 1, 0, 0))

\* C12 (as claimed): after loadPreset('basic-fm') on an initialized engine,
\* operator 1 is wired to the master gain and recorded as enabled.
C12_BasicFmMasterOut ==
    (last.op = "loadPreset" /\ ~last.threw /\ last.args.name = "basic-fm") =>
        (1 \in masterLinks /\ modulationMatrix.masterOutputs[1] # "null")

\* C13: updateModulationDepth(s, t, d) on a connected pair keeps the pair's
\* link (none created, none torn down), records depth d and changes no other
\* cell; on a pair without a connection it leaves the matrix and the graph as
\* setModulation(s, t, d) leaves them.
C13_UpdateDepth ==
    [][(last'.op = "updateModulationDepth") =>
         LET s == last'.args.s
             t == last'.args.t
             d == last'.args.depth
             r == setModulation(Matrix, s, t, d)
         IN  IF hasModulation(modulationMatrix, s, t)
             THEN /\ last'.created = 0 /\ last'.torn = 0
                  /\ modLinks' = modLinks
                  /\ hasModulation(modulationMatrix', s, t)
                  /\ getModulationDepth(modulationMatrix', s, t) = d
                  /\ \A i, j \in MatIdx :
                         <<i, j>> # <<s, t>> =>
                             modulationMatrix'.connections[i][j] =
                                 modulationMatrix.connections[i][j]
                  /\ modulationMatrix'.masterOutputs = modulationMatrix.masterOutputs
             ELSE /\ modulationMatrix' = r.m
                  /\ modLinks' = r.links
                  /\ masterLinks' = r.master
                  /\ last'.created = r.created /\ last'.torn = r.torn]_vars

\* C13 witness: the depth of a connected pair was updated in place to another
\* positive depth.
C13_Witness ==
    /\ last.op = "updateModulationDepth"
    /\ last.args.depth = 1
    /\ last.created = 0 /\ last.torn = 0
    /\ hasModulation(modulationMatrix, last.args.s, last.args.t)
    /\ getModulationDepth(modulationMatrix, last.args.s, last.args.t) = 1
    /\ modLinks[<<last.args.s, last.args.t>>] = 1

\* C14: after setMatrix(m), getMatrix() holds m[i][j] in every cell (i, j) of
\* the 4x4 matrix that m has, with one link where it is positive and none
\* where it is 0; the cells m does not have are as before, and the rows and
\* columns of m beyond the fourth change nothing.
C14_SetMatrixGetMatrix ==
    [][(last'.op = "setMatrix") =>
         LET m == last'.args.matrix
         IN  \A i, j \in MatIdx :
                IF i \in DOMAIN m /\ j \in DOMAIN m[i]
                THEN /\ getMatrix(modulationMatrix')[i][j] = m[i][j]
                     /\ modLinks'[<<i, j>>] = IF m[i][j] > 0 THEN 1 ELSE 0
                ELSE /\ modulationMatrix'.connections[i][j] = modulationMatrix.connections[i][j]
                     /\ modLinks'[<<i, j>>] = modLinks[<<i, j>>]]_vars

\* C14 witness: a 5x5 grid was applied over a routing that had connections;
\* getMatrix() is its 4x4 corner.
C14_Witness ==
    /\ last.op = "setMatrix"
    /\ DOMAIN last.args.matrix = 0 .. MatrixSize
    /\ last.torn >= 1
    /\ getMatrix(modulationMatrix) = [i \in MatIdx |-> [j \in MatIdx |-> last.args.matrix[i][j]]]
    /\ getMatrix(modulationMatrix)[1][1] = 1

\* C15 (as claimed): right after allNotesOff() no note is registered, no
\* operator holds a voice handle, and the envelope of every operator is
\* inactive.
C15_AllNotesOffClears ==
    (last.op = "allNotesOff") =>
        /\ Sounding = {}
        /\ \A k \in DOMAIN operators :
              /\ operators[k].voices = {}
              /\ Has(operators[k], "envelope") => ~envelopes[operators[k].envelope].isActive

\* C16 (as claimed): noteOff(n) for a note that is not sounding changes no
\* operator, no envelope and not the active set; for a sounding note it removes
\* n from the active set, leaves the other notes as they were, and every
\* operator has released with -- and dropped -- exactly the handle stored for it.
C16_NoteOffFrame ==
    [][(last'.op = "noteOff") =>
         LET n == last'.midi
         IN  IF ~Has(activeVoices, n)
             THEN /\ ~last'.sounding
                  /\ operators' = operators
                  /\ envelopes' = envelopes
                  /\ activeVoices' = activeVoices
             ELSE /\ last'.sounding
                  /\ activeVoices' = Drop(activeVoices, n)
                  /\ \A k \in DOMAIN operators :
                        /\ operators'[k].voices = operators[k].voices \ {Handle(n, k)}
                        /\ ~envelopes'[operators[k].envelope].isActive
                        /\ FinalValue(operators'[k].envelopeGain) = 0]_vars

\* C17 (as claimed): the release call Operator.noteOff makes on the operator's
\* envelope returns without an error; on an inactive envelope it changes
\* neither the envelope nor the gain's schedule; on an active one it leaves the
\* envelope inactive and the gain with one pending ramp, from the value that
\* was live at the call to 0, ending `release` later.
C17_Release ==
    [][(last'.op = "Operator.noteOff" /\ Has(operators[last'.k], "envelope")) =>
         LET k == last'.k
             e == operators[k].envelope
             p == operators[k].envelopeGain
         IN  /\ ~last'.threw
             /\ IF ~envelopes[e].isActive
                THEN /\ envelopes'[e] = envelopes[e]
                     /\ operators'[k].envelopeGain = p
                ELSE /\ ~envelopes'[e].isActive
                     /\ operators'[k].envelopeGain =
                            [value |-> p.value, from |-> p.value,
                             sched |-> <<[target |-> 0, at |-> envelopes[e].release]>>]]_vars

\* The parameters of an envelope are within their ranges.
EnvelopeInRange(env) ==
    /\ Geq(env.attack, MinTime)
    /\ Geq(env.decay, MinTime)
    /\ Geq(env.release, MinTime)
    /\ Geq(env.sustain, 0) /\ Leq(env.sustain, One)

\* C18 (as claimed): in every reachable state every envelope has attack, decay
\* and release of at least 0.001 s and a sustain level within [0, 1], whatever
\* numbers setAttack, setDecay, setSustain, setRelease, setState and
\* updateADSRParam were called with.
C18_ParamsClamped ==
    \A e \in DOMAIN envelopes : EnvelopeInRange(envelopes[e])

\* A call whose arguments are all numbers other than NaN leaves an envelope
\* that was within its ranges within them.
ClampedUnlessNaN ==
    [][(last'.op \in {"setAttack", "setDecay", "setSustain", "setRelease",
                      "Envelope.setState", "updateADSRParam"} /\ ~last'.nan) =>
         \A e \in DOMAIN envelopes :
            EnvelopeInRange(envelopes[e]) => EnvelopeInRange(envelopes'[e])]_vars

\* C19: start() on an LFO leaves it running and stop() leaves it stopped,
\* also when called twice in a row; start() on a running LFO and stop() on a
\* stopped one change nothing of the LFO and schedule no gate automation.
C19_StartStopIdempotent ==
    [][(last'.op \in {"startLFO", "stopLFO"} /\ last'.lfoIndex \in DOMAIN lfos) =>
         LET i == last'.lfoIndex
             noop == lfos[i].isRunning = (last'.op = "startLFO")
         IN  /\ lfos'[i].isRunning = (last'.op = "startLFO")
             /\ last'.scheduled = ~noop
             /\ noop => lfos'[i] = lfos[i]]_vars

\* C19 witness: stop() was called twice in a row on LFO 0, the second call
\* scheduled nothing, and the LFO is stopped.
C19_Witness ==
    /\ 0 \in DOMAIN lfos
    /\ last.op = "stopLFO" /\ last.lfoIndex = 0 /\ last.twice
    /\ ~last.scheduled
    /\ ~lfos[0].isRunning

\* C20: noteOn, noteOff and allNotesOff leave every LFO (running flag, rate,
\* depth, waveform, gate), the router's tables and the router's links as they
\* were.
C20_NotesLeaveLFOs ==
    [][(last'.op \in {"noteOn", "noteOff", "allNotesOff"}) =>
         /\ lfos' = lfos
         /\ lfoRouter' = lfoRouter
         /\ lfoLinks' = lfoLinks]_vars

\* C20 witness: a note operation has run on a sounding note while LFO 0 was
\* running at a changed rate and was linked to operator 1's level.
C20_Witness ==
    /\ last.op \in {"noteOn", "noteOff", "allNotesOff"}
    /\ Sounding # {}
    /\ lfos[0].isRunning /\ lfos[0].rate = 200
    /\ LinkCount(lfoLinks, LinkKey(0, 1, "level")) = 1

\* The keys (lfoIdx, opIdx, targetKind) of the router
RouterKeys == {LinkKey(l, o, t) : l \in 0 .. (NumLFOs - 1), o \in OpIdx, t \in KindInputs}

\* C21: after every router call, each key has at most one depth link, and has
\* one exactly when isConnected; connect leaves its key with no link and
\* isConnected false when depth <= 0, and with exactly one link -- the new
\* one, of the new depth -- when depth > 0, whatever the key held before.
C21_OneLinkPerKey ==
    [][(last'.op \in {"router.connect", "router.updateDepth", "router.disconnect",
                      "router.dispose"}) =>
         /\ \A key \in RouterKeys :
               LinkCount(lfoLinks', key) =
                   IF Router_isConnected(lfoRouter', key.lfo, key.op, key.target) THEN 1 ELSE 0
         /\ DOMAIN lfoLinks' \subseteq RouterKeys
         /\ (last'.op = "router.connect" /\ last'.lfoIndex \in DOMAIN lfos) =>
               LET l == last'.lfoIndex
                   o == last'.opIndex
                   t == last'.target
               IN  IF last'.depth <= 0
                   THEN ~Router_isConnected(lfoRouter', l, o, t)
                   ELSE /\ Router_isConnected(lfoRouter', l, o, t)
                        /\ lfoRouter'.connections[l][o][t].gain =
                               DepthGainValue(t, last'.depth)
                        /\ Router_getDepth(lfoRouter', l, o, t) = last'.depth]_vars

\* C21 witness: connect has replaced the link of a key that was connected at
\* another depth.
C21_Witness ==
    /\ last.op = "router.connect" /\ last.lfoIndex = 0 /\ last.depth = 500
    /\ last.replaced
    /\ LinkCount(lfoLinks, LinkKey(0, last.opIndex, last.target)) = 1

\* C22: clearModulation(i, j) returns without an error and leaves the pair
\* (i, j) absent from the connection table, also when the backend raised an
\* error during the teardown; on an absent pair -- so on a second call right
\* after the first -- it changes nothing.
C22_ClearModulation ==
    [][(last'.op = "clearModulation") =>
         LET i == last'.args.s
             j == last'.args.t
         IN  /\ ~last'.threw
             /\ ~Connected(modulationMatrix', i, j)
             /\ ~Connected(modulationMatrix, i, j) => UNCHANGED matrixVars
             /\ (last.op = "clearModulation" /\ last.args = last'.args) =>
                    UNCHANGED matrixVars]_vars

\* C22 witness: clearModulation has removed a pair whose link the backend had
\* already severed, the error was swallowed.
C22_Witness ==
    /\ last.op = "clearModulation" /\ last.caught = 1 /\ ~last.threw
    /\ ~Connected(modulationMatrix, last.args.s, last.args.t)

LFOIdx == 0 .. (NumLFOs - 1)

EnvIdx == 0 .. (NumEnvelopes - 1)

\* The call recorded in c was made with an operator, envelope or LFO index
\* outside 0..3. (The matrix operations are ModulationMatrix methods: they are
\* calls on the matrix object, which exists once init() has run.)
IndexOutOfRange(c) ==
    CASE c.op \in {"setModulation", "updateModulationDepth", "clearModulation"} ->
            modulationMatrix # NoMatrix /\ (c.args.s \notin OpIdx \/ c.args.t \notin OpIdx)
      [] c.op = "setOperatorMasterOut" ->
            modulationMatrix # NoMatrix /\ c.args.opIndex \notin OpIdx
      [] c.op \in {"router.connect", "router.updateDepth", "router.disconnect"} ->
            c.lfoIndex \notin LFOIdx \/ c.opIndex \notin OpIdx
      [] c.op = "updateOperatorParam" -> c.opIndex \notin OpIdx
      [] c.op \in {"updateLFOParam", "startLFO", "stopLFO"} -> c.lfoIndex \notin LFOIdx
      [] c.op = "updateADSRParam" -> c.env \notin EnvIdx
      [] c.op = "assignEnvelopeToOperator" -> c.opIndex \notin OpIdx \/ c.envIndex \notin EnvIdx
      [] OTHER -> FALSE

\* C23: a call with an operator or LFO index outside 0..3 returns without an
\* error and leaves the connection tables and links of the matrix and of the
\* router, the master outputs and every operator, envelope and LFO unchanged.
C23_BadIndexNoOp ==
    [][IndexOutOfRange(last') =>
         /\ Has(last', "threw") => ~last'.threw
         /\ UNCHANGED <<matrixVars, routerVars, operators, envelopes, lfos>>]_vars

\* C23 witness: updateModulationDepth was called with a target past the last
\* operator on the initialized engine, whose operator 1 has had parameters set
\* and whose LFO 1 runs.
C23_Witness ==
    /\ last.op = "updateModulationDepth" /\ last.args.s = 1 /\ last.args.t = 4
    /\ isInitialized /\ lfos[1].isRunning
    /\ operators[1].frequency = FrequencyOfValue(500) /\ operators[1].frequencyRatio = 8000

\* C24 (as claimed): noteOn(noteNumber, velocity) that completes records the
\* velocity given as the second argument -- 0.75 when there is none -- in the
\* voice, and every operator's envelope gain ramps to that peak first.
C24_VelocitySecondArgument ==
    [][(last'.op = "noteOn" /\ ~last'.threw) =>
         LET n == last'.args.midi
             velocity == IF Has(last'.args, "noteName") THEN last'.args.noteName
                         ELSE DefaultVelocity
         IN  /\ Has(activeVoices', n)
             /\ activeVoices'[n].velocity = velocity
             /\ \A k \in DOMAIN operators :
                    Has(operators[k], "envelope") =>
                        Head(operators'[k].envelopeGain.sched).target = velocity]_vars

\* ------------------------------------------------- pitch
TuningSliderInputs == {0, 1000}

RatioSliderInputs == {125, 500}

RatioOpInputs == {0, 1}

NextPitch ==
    \/ SynthInit
    \/ \E value \in TuningSliderInputs : UpdateMasterParam("tuning", value)
    \/ \E k \in RatioOpInputs, value \in RatioSliderInputs :
           UpdateOperatorParam(k, "ratio", value)
    \/ \E n \in Notes : NoteOn([midi |-> n])

SpecPitch == Init /\ [][NextPitch]_vars

\* C25: a noteOn(n) that completes records the base frequency T * 2^((n-69)/12)
\* for the tuning reference T: exactly T for note 69 and 2 * T for note 81
\* (440 Hz and 880 Hz at the default tuning), and sets each operator's
\* oscillator to that base frequency times the operator's frequency ratio.
C25_BaseFrequency ==
    [][(last'.op = "noteOn" /\ ~last'.threw) =>
         LET n == last'.args.midi
             base == activeVoices'[n].frequency
         IN  /\ n = 69 => base = masterTuning * One
             /\ n = 81 => base = 2 * masterTuning * One
             /\ (n = 69 /\ masterTuning = 440) => base = 440 * One
             /\ (n = 81 /\ masterTuning = 440) => base = 880 * One
             /\ \A k \in DOMAIN operators :
                    operators'[k].oscFrequency
                        = (base \div One) * operators[k].frequencyRatio]_vars

\* Note 81 sounds at a tuning other than the default, with operator 0 on a
\* ratio of 8 and operator 1 on a ratio of 2
C25_Witness ==
    /\ last.op = "noteOn" /\ ~last.threw /\ last.args.midi = 81
    /\ masterTuning = 466
    /\ activeVoices[81].frequency = 932 * One
    /\ operators[0].frequencyRatio = 8 * One /\ operators[0].oscFrequency = 7456 * One
    /\ operators[1].frequencyRatio = 2 * One /\ operators[1].oscFrequency = 1864 * One

\* ------------------------------------------------- operators with no envelope
SilentOpInputs == {0, 1, 2, 3}

SilentNoteInputs == {69}

NextSilent ==
    \/ SynthInit
    \/ \E k \in SilentOpInputs : OperatorSetEnvelopeNull(k)
    \/ \E k \in DirectOpInputs : OperatorNoteOn(k, 220 * One, DefaultVelocity)
    \/ \E n \in SilentNoteInputs : NoteOn([midi |-> n])
    \/ \E n \in SilentNoteInputs : NoteOff(n)

SpecSilent == Init /\ [][NextSilent]_vars

\* C26: Operator.noteOn on an operator with no envelope returns no handle and
\* leaves the operator (voice set, handle counter, oscillator frequency,
\* envelope gain) and the envelopes as they were; the synthesizer's noteOn
\* stores no handle for such an operator, and its noteOff of a voice leaves
\* every operator the voice has no handle for untouched.
C26_NoEnvelopeNoOp ==
    [][/\ (last'.op = "Operator.noteOn" /\ ~Has(operators[last'.k], "envelope")) =>
           /\ ~last'.returned /\ ~last'.threw
           /\ operators' = operators
           /\ envelopes' = envelopes
       /\ last'.op = "noteOn" =>
           \A k \in DOMAIN operators :
               ~Has(operators[k], "envelope") =>
                   /\ operators'[k] = operators[k]
                   /\ ~last'.threw => ~Has(activeVoices'[last'.args.midi].operatorVoices, k)
       /\ (last'.op = "noteOff" /\ last'.sounding) =>
           \A k \in DOMAIN operators :
               ~Has(activeVoices[last'.midi].operatorVoices, k) =>
                   operators'[k] = operators[k]]_vars

\* A note played while operator 1 had no envelope has been released: operator 1
\* never allocated a handle and is still at its initial frequency and gain.
C26_Witness ==
    /\ last.op = "noteOff" /\ last.sounding /\ ~last.threw
    /\ 1 \in DOMAIN operators
    /\ ~Has(operators[1], "envelope")
    /\ operators[1].voices = {} /\ operators[1].nextVoiceId = 0
    /\ operators[1].oscFrequency = 440 * One
    /\ operators[1].envelopeGain.sched = <<>>
    /\ ~Has(activeVoices, 69)

\* ------------------------------------------------- frequency mapping
FreqValueInputs == {0, 100, 200, 300, 400, 500, 600, 700, 800, 900, 1000}

FreqOpInputs == {0, 1}

NextFrequency ==
    \/ SynthInit
    \/ \E k \in FreqOpInputs, value \in FreqValueInputs :
           UpdateOperatorParam(k, "frequency", value)
    \/ \E value \in FreqValueInputs : FrequencyValueToHz(value)

SpecFrequency == Init /\ [][NextFrequency]_vars

\* f is within a thousandth of the target, the precision of the fixed-point power
Near(f, target) == (f - target) * 1000 <= target /\ (target - f) * 1000 <= target

\* C27: the frequency updateOperatorParam gives an operator for a slider value
\* is 0.5 Hz at value 0 and 16000 Hz at value 1, above the frequency of every
\* smaller value and below that of every larger one, and equal to what the
\* UI's frequencyValueToHz returns for the same value.
C27_FrequencyMapping ==
    (last.op = "updateOperatorParam" /\ last.param = "frequency"
        /\ last.opIndex \in DOMAIN operators) =>
        LET f == operators[last.opIndex].frequency
        IN  /\ last.value = 0 => Near(f, One \div 2)
            /\ last.value = One => Near(f, 16000 * One)
            /\ \A v \in FreqValueInputs :
                   /\ v < last.value => FrequencyOfValue(v) < f
                   /\ v > last.value => FrequencyOfValue(v) > f
            /\ f = frequencyValueToHz(last.value)

\* Operator 1 has been given the frequency of the middle of the slider, the
\* geometric mean of the two ends (89.44 Hz)
C27_Witness ==
    /\ last.op = "updateOperatorParam" /\ last.param = "frequency"
    /\ last.opIndex = 1 /\ last.value = 500
    /\ 1 \in DOMAIN operators
    /\ Near(operators[1].frequency, 89443)
    /\ operators[0].frequency = frequencyValueToHz(1000)
    /\ Near(operators[0].frequency, 16000 * One)

\* ------------------------------------------------- initialization
NextInit ==
    \/ \E created \in BOOLEAN : InitCall(created)
    \/ \E resumed \in BOOLEAN : InitResume(resumed)
    \/ \E n \in SilentNoteInputs : NoteOn([midi |-> n])

SpecInit == Init /\ [][NextInit]_vars

\* C28 (as claimed): however init() is invoked, one audio context at most is
\* created, and an initialized engine holds one context and exactly 4
\* operators, 4 envelopes and 4 LFOs.
C28_InitOnce ==
    /\ audioContexts <= 1
    /\ isInitialized =>
           /\ audioContexts = 1
           /\ Len0(operators) = NumOperators
           /\ Len0(envelopes) = NumEnvelopes
           /\ Len0(lfos) = NumLFOs

\* ------------------------------------------------- exceptions
NextSurface ==
    \/ SynthInit
    \/ SetModulation(0, 1, 50)
    \/ SetOperatorMasterOut(1, TRUE)
    \/ LoadPreset("basic-fm")
    \/ GetState
    \/ \E n \in SilentNoteInputs : NoteOn([midi |-> n])
    \/ \E n \in SilentNoteInputs : NoteOff(n)
    \/ \E lfosFirst \in BOOLEAN : RouterSetUp(lfosFirst)
    \/ \E d \in RouterDepthInputs : RouterConnect(0, 1, "level", d)

SpecSurface == Init /\ [][NextSurface]_vars

\* C29 (as claimed): no operation of the synthesizer, the matrix or the router
\* raises an exception, whatever was called before it.
C29_NoExceptions == Has(last, "threw") => ~last.threw

\* C30 (as claimed): once the synthesizer is initialized, an operator that has
\* not had a note-on yet (it has handed out no voice handle) holds its
\* envelope gain at 0, with nothing scheduled on it.
C30_SilentUntilTriggered ==
    isInitialized =>
        \A k \in DOMAIN operators :
            operators[k].nextVoiceId = 0 =>
                /\ operators[k].envelopeGain.value = 0
                /\ operators[k].envelopeGain.sched = <<>>

\* ------------------------------------------------- envelope automation
AutomationOpInputs == {0, 1}

AutomationVelocityInputs == {500, 1000}

NextAutomation ==
    \/ SynthInit
    \/ \E k \in AutomationOpInputs, v \in AutomationVelocityInputs : EnvelopeTrigger(k, v)
    \/ \E k \in AutomationOpInputs : EnvelopeRelease(k)
    \/ \E k \in AutomationOpInputs : EnvelopeReset(k)
    \/ \E mode \in {"mid", "end"} : Render(mode)

SpecAutomation == Init /\ [][NextAutomation]_vars

\* The envelope of operator k, before the call
EnvelopeOf(k) == envelopes[operators[k].envelope]

\* After trigger and reset the gain's pending schedule holds the segments of
\* that call and no other: the attack and decay ramps, or nothing.
TriggerResetLatestWins ==
    [][/\ last'.op = "Envelope.trigger" =>
           operators'[last'.k].envelopeGain.sched
               = << [target |-> last'.velocity, at |-> EnvelopeOf(last'.k).attack],
                    [target |-> (last'.velocity * EnvelopeOf(last'.k).sustain) \div One,
                     at |-> EnvelopeOf(last'.k).attack + EnvelopeOf(last'.k).decay] >>
       /\ last'.op = "Envelope.reset" =>
           operators'[last'.k].envelopeGain.sched = <<>>]_vars

\* C31 (as claimed): after a trigger, release or reset call on an envelope, the
\* gain's pending schedule holds only the segments that call scheduled: the
\* attack and decay ramps after trigger, the ramp to 0 after the release of
\* an active envelope, nothing after reset.
C31_LatestCallWins ==
    [][/\ last'.op = "Envelope.trigger" =>
           operators'[last'.k].envelopeGain.sched
               = << [target |-> last'.velocity, at |-> EnvelopeOf(last'.k).attack],
                    [target |-> (last'.velocity * EnvelopeOf(last'.k).sustain) \div One,
                     at |-> EnvelopeOf(last'.k).attack + EnvelopeOf(last'.k).decay] >>
       /\ last'.op = "Envelope.reset" =>
           operators'[last'.k].envelopeGain.sched = <<>>
       /\ (last'.op = "Envelope.release" /\ last'.active) =>
           operators'[last'.k].envelopeGain.sched
               = << [target |-> 0, at |-> EnvelopeOf(last'.k).release] >>]_vars

\* C32 (as claimed): while a note is sounding, every operator has an envelope
\* and that envelope is active.
C32_SoundingKeepsEnvelopesActive ==
    Sounding # {} =>
        \A k \in DOMAIN operators :
            /\ Has(operators[k], "envelope")
            /\ envelopes[operators[k].envelope].isActive

\* The handles the active voices store for operator k
StoredHandles(k) ==
    {activeVoices[n].operatorVoices[k] :
        n \in {m \in Sounding : Has(activeVoices[m].operatorVoices, k)}}

\* C33: in the initialized synthesizer each operator's set of voice handles is
\* exactly the set of handles the active voices store for it, every sounding
\* note stores a handle for every operator, and no two sounding notes share one.
C33_HandlesMatchVoices ==
    isInitialized =>
        \A k \in DOMAIN operators :
            /\ operators[k].voices = StoredHandles(k)
            /\ \A n \in Sounding : Has(activeVoices[n].operatorVoices, k)
            /\ \A n1, n2 \in Sounding : n1 # n2 => Handle(n1, k) # Handle(n2, k)

\* Notes 69 and 81 both sound, each with its own handle in every operator
C33_Witness ==
    /\ isInitialized
    /\ Sounding = {69, 81}
    /\ \A k \in DOMAIN operators :
           /\ operators[k].voices = {Handle(69, k), Handle(81, k)}
           /\ Cardinality(operators[k].voices) = 2
    /\ last.op \in {"noteOff", "allNotesOff"}

\* ------------------------------------------------- LFO targets
TargetLFOInputs == {0, 1}

TargetInputs == {"op1-freq", "op2-level", "op2-freq", "op9-level", "none"}

NextTargets ==
    \/ SynthInit
    \/ \E l \in TargetLFOInputs, target \in TargetInputs : SetLFOTarget(l, target)
    \/ \E l \in TargetLFOInputs, d \in RouterDepthInputs : RouterConnect(l, 1, "level", d)

SpecTargets == Init /\ [][NextTargets]_vars

\* What LFO l drives: the parameters its panner is connected to, and the
\* parameters the router links it to through a depth gain
Driven(l) ==
    lfos[l].targets
        \cup {<<key.op, key.target>> : key \in {x \in DOMAIN lfoLinks : x.lfo = l}}

\* C34 (as claimed): after a setLFOTarget(l, target) that names an operator of
\* the synthesizer, LFO l drives the parameter the target names and no other.
C34_OneTargetPerLFO ==
    (/\ last.op = "setLFOTarget"
     /\ last.lfoIndex \in DOMAIN lfos
     /\ MatchTarget(last.target) # <<>>
     /\ (MatchTarget(last.target).op - 1) \in DOMAIN operators) =>
        Driven(last.lfoIndex)
            = {<<MatchTarget(last.target).op - 1,
                 IF MatchTarget(last.target).param = "freq" THEN "frequency" ELSE "level">>}

\* C35 (as claimed): getDepth(l, o, k) is 0 for every key that isConnected
\* reports as not connected.
C35_DepthZeroWhenDisconnected ==
    lfoRouter # NoRouter =>
        \A l \in KeyLFOInputs, o \in KeyOpInputs, k \in KindInputs :
            ~Router_isConnected(lfoRouter, l, o, k) => Router_getDepth(lfoRouter, l, o, k) = 0

\* ------------------------------------------------- state round trip
RoundTripCellInputs == {<<0, 1>>, <<1, 1>>}

RoundTripDepthInputs == {0 - 50, 0, 150}

RoundTripSnapshotInputs ==
    {[operators |-> Arr1([waveform |-> "cosine", frequencyRatio |-> 3 * One])],
     [envelopes |-> Arr1([attack |-> 50, sustain |-> 2 * One])],
     [lfos |-> Arr1([isRunning |-> TRUE])],
     [matrix |-> Grid(Row(0, 0, 0, 0), Row(0, 0, 40, 0), Row(0, 0, 0, 0), Row(0, 0, 0, 0))]}

NextRoundTrip ==
    \/ SynthInit
    \/ \E state \in RoundTripSnapshotInputs : SetState(state)
    \/ RestoreState
    \/ \E c \in RoundTripCellInputs, d \in RoundTripDepthInputs :
           UpdateModulationDepth(c[1], c[2], d)
    \/ \E i \in LFOInputs : UpdateLFOParam(i, "rate", 1000)

SpecRoundTrip == Init /\ [][NextRoundTrip]_vars

\* C36: synth.setState(synth.getState()) on the initialized synthesizer leaves
\* getState() as it was: master volume, tuning and glide time, every operator,
\* envelope and LFO record with its running flag, and the matrix.
C36_RoundTrip ==
    [][(isInitialized /\ last'.op = "setState" /\ last'.state = Synth_getState)
            => Synth_getState' = Synth_getState]_vars

\* C37: startTimer() on a timer that is neither running nor paused, with a
\* duration D > 0 in the input fields, leaves the timer running with
\* remainingTime = D, and completes nothing in that step: no record is saved
\* before D of running time has passed.
C37_FreshStartRuns ==
    [][(last'.op = "startTimer" /\ last'.fresh /\ ConfiguredDuration(last'.input) > 0)
          => /\ timer'.isRunning
             /\ timer'.remainingTime = ConfiguredDuration(last'.input)
             /\ timeRecords' = timeRecords]_vars

\* C38: the stopwatch counts running time alone. While it runs,
\* Date.now() - startTime is the time it has run since the reset and
\* elapsedTime is that time as of the last update; while it does not run,
\* elapsedTime stays at the time it has run and the browser holds no
\* updateStopwatch callback that could change it; resetStopwatch() leaves
\* elapsedTime = 0 and the stopwatch not running.
C38_ElapsedIsRunningTime ==
    /\ stopwatch.isRunning =>
          /\ clock - stopwatch.startTime = runTime
          /\ stopwatch.elapsedTime <= runTime
    /\ ~stopwatch.isRunning =>
          /\ stopwatch.elapsedTime = runTime
          /\ \A f \in frames.pending : f.callback # "updateStopwatch"
    /\ last.op = "resetStopwatch" => stopwatch.elapsedTime = 0 /\ ~stopwatch.isRunning

\* A paused stopwatch that had run was started again and shows the frozen time
C38_Witness ==
    /\ last.op = "startStopwatch"
    /\ stopwatch.isRunning
    /\ stopwatch.elapsedTime > 0
    /\ clock - stopwatch.startTime = stopwatch.elapsedTime

====
